---- MODULE Spec2Model ----
(***************************************************************************)
(* Model of the wedding-day timeline construction engine                   *)
(* (tools/timeline_builder.py, core/models.py).                            *)
(*                                                                         *)
(* A date-time on the wedding date is the number of seconds since          *)
(* midnight; durations are integer minutes, as in EventInputs.  A missing  *)
(* Optional value (Python's None) is the value None.  A TimelineBlock is a *)
(* record with the fields name, start, end, location, audience and kind;   *)
(* the free-text notes of a block are read by no operation and are left    *)
(* out.  A warning string is a record: text is the fixed part of the       *)
(* message; name, mins and times are the values interpolated into it.      *)
(*                                                                         *)
(* build_timeline is one straight-line function; every section of it is    *)
(* one action, taken in program order (pc).                                *)
(***************************************************************************)
EXTENDS Integers, Sequences, FiniteSets, TLC

VARIABLES
    inputs,            \* the EventInputs value of the current call
    pc,                \* position inside build_timeline
    t,                 \* the running cursor
    blocks,            \* List[TimelineBlock] of the current call
    warnings,          \* List[str] of the current call
    dancefloor_start,  \* Optional[datetime], local of build_timeline
    dancefloor_end,    \* Optional[datetime], local of build_timeline
    calls,             \* number of build_timeline calls started so far
    history,           \* (inputs, blocks, warnings) of the completed calls
    ovArgs,            \* arguments of a direct _overlap_minutes call
    ovResult,          \* its return value (None before the call)
    analytics          \* results of the coverage analytics calls on blocks

vars == <<inputs, pc, t, blocks, warnings, dancefloor_start, dancefloor_end,
          calls, history, ovArgs, ovResult, analytics>>

-----------------------------------------------------------------------------
(* Bounds of the model *)

\* buffer_minutes ranges over 0, 15, ..., 15 * MaxBufferSteps
MaxBufferSteps == 1
\* number of build_timeline calls in one behaviour of SpecRuns
MaxCalls == 3
\* _overlap_minutes is called on instants 0 .. MaxGrid minutes
MaxGrid == 4
\* number of analytics calls on the blocks of one build_timeline call
MaxAnalyticsCalls == 2

-----------------------------------------------------------------------------
(* Time arithmetic (core/timeutils) *)

None == -1

SecondsPerMinute == 60

\* parse_hhmm: a clock time of the wedding date, minute precision
Clock(h, m) == (h * 60 + m) * SecondsPerMinute

add_minutes(dt, minutes) == dt + minutes * SecondsPerMinute

add_hours(dt, hours) == dt + hours * 60 * SecondsPerMinute

\* whole minutes from a to b (negative when b is before a)
minutes_between(a, b) == (b - a) \div SecondsPerMinute

Max2(a, b) == IF a >= b THEN a ELSE b
Min2(a, b) == IF a <= b THEN a ELSE b

-----------------------------------------------------------------------------
(* Domain data model *)

\* TimelineBlock; duration_minutes is the derived property
TimelineBlock(name, start, end, location, audience, kind) ==
    [name |-> name, start |-> start, end |-> end, location |-> location,
     audience |-> audience, kind |-> kind]

duration_minutes(b) == (b.end - b.start) \div SecondsPerMinute

\* safe_fmt_time: 12-hour clock, minute precision (seconds are dropped)
safe_fmt_time(dt) ==
    LET h24 == (dt \div (60 * SecondsPerMinute)) % 24
        h12 == IF h24 % 12 = 0 THEN 12 ELSE h24 % 12
    IN  [hour |-> h12, minute |-> (dt \div SecondsPerMinute) % 60,
         pm |-> h24 >= 12]

\* A warning string: its fixed text, and the event name, the minute count and
\* the formatted times interpolated into it
Warning(text, name, mins, times) ==
    [text |-> text, name |-> name, mins |-> mins, times |-> times]

\* ReceptionEvents with the dataclass defaults (dancefloor fields as the form
\* passes them)
DefaultReceptionEvents ==
    [grand_entrance |-> TRUE, first_dance |-> TRUE,
     father_daughter_dance |-> FALSE, mother_son_dance |-> FALSE,
     toasts |-> TRUE, dinner |-> TRUE,
     dancefloor_coverage |-> TRUE, dancefloor_minutes |-> 90,
     cake_cutting |-> TRUE, bouquet_toss |-> FALSE, garter_toss |-> FALSE,
     grand_entrance_time |-> None, first_dance_time |-> None,
     parent_dances_time |-> None, toasts_time |-> None,
     dinner_start_time |-> None, cake_cutting_time |-> None,
     bouquet_toss_time |-> None, garter_toss_time |-> None,
     grand_entrance_minutes |-> 10, first_dance_minutes |-> 8,
     parent_dances_minutes |-> 10, toasts_minutes |-> 20,
     dinner_minutes |-> 60, cake_cutting_minutes |-> 10,
     bouquet_toss_minutes |-> 8, garter_toss_minutes |-> 5]

DefaultFamilyDynamics ==
    [divorced_parents |-> FALSE, remarried_parents |-> FALSE,
     strained_relationships |-> FALSE, finicky_family_members |-> FALSE]

\* The EventInputs the form builds from its default widget values, with the
\* durations of the documented 12:00 PM / 8 h / 4:00 PM scenario.  The three
\* last fields are not set by the form: build_timeline reads them with getattr
\* and these are the getattr defaults.
DefaultInputs ==
    [coverage_start |-> Clock(12, 0), coverage_hours |-> 8,
     coverage_end |-> add_hours(Clock(12, 0), 8),
     photographer_arrival_time |-> None, arrival_setup_minutes |-> 0,
     ceremony_start |-> Clock(16, 0), ceremony_minutes |-> 30,
     getting_ready_location |-> "Getting ready location",
     ceremony_location |-> "Ceremony location",
     reception_location |-> "Reception location",
     travel_gr_to_ceremony_minutes |-> 15,
     travel_ceremony_to_reception_minutes |-> 15,
     first_look |-> TRUE, receiving_line |-> FALSE,
     receiving_line_minutes |-> 10,
     cocktail_hour_minutes |-> 60, protect_cocktail_hour |-> FALSE,
     family_dynamics |-> DefaultFamilyDynamics,
     buffer_minutes |-> 15, flatlay_details_minutes |-> 30,
     getting_dressed_minutes |-> 30, individual_portraits_minutes |-> 30,
     first_look_minutes |-> 15, couple_portraits_minutes |-> 45,
     wedding_party_portraits_minutes |-> 30, family_portraits_minutes |-> 30,
     tuckaway_minutes |-> 10,
     family_groupings |-> None, minutes_per_family_grouping |-> 3,
     sunset_time |-> None, golden_hour_window_minutes |-> 20,
     reception_start |-> None,
     reception_events |-> DefaultReceptionEvents,
     portraits_location |-> "",
     cocktail_hour_follows_ceremony |-> TRUE,
     ceremony_to_cocktail_gap_minutes |-> 0]

\* coverage_end is computed once by the caller: coverage_start + coverage_hours
WithCoverageHours(inp, hours) ==
    [inp EXCEPT !.coverage_hours = hours,
                !.coverage_end = add_hours(inp.coverage_start, hours)]

BufferChoices == {15 * k : k \in 0..MaxBufferSteps}

OptionalTimes(S) == {None} \cup S

\* Arrival, preparation and tuckaway inputs
PrepInputs ==
    { [WithCoverageHours(DefaultInputs, ch) EXCEPT
          !.first_look = fl, !.buffer_minutes = b,
          !.tuckaway_minutes = tk, !.first_look_minutes = flm,
          !.photographer_arrival_time = arr,
          !.arrival_setup_minutes = IF arr = None THEN 0 ELSE su] :
        fl \in BOOLEAN, b \in BufferChoices, ch \in {2, 8},
        tk \in {0, 10, 30}, flm \in {15, 30},
        arr \in OptionalTimes({Clock(11, 45), Clock(12, 15)}),
        su \in {0, 30} }

FamilyDynamicsChoices ==
    { DefaultFamilyDynamics,
      [DefaultFamilyDynamics EXCEPT !.divorced_parents = TRUE],
      [DefaultFamilyDynamics EXCEPT !.remarried_parents = TRUE],
      [DefaultFamilyDynamics EXCEPT !.strained_relationships = TRUE],
      [DefaultFamilyDynamics EXCEPT !.finicky_family_members = TRUE] }

\* Portrait sizing, family dynamics and cocktail-hour pressure inputs
PortraitInputs ==
    { [DefaultInputs EXCEPT
          !.first_look = fl, !.buffer_minutes = b,
          !.family_dynamics = fd, !.family_groupings = fg,
          !.receiving_line = rl, !.protect_cocktail_hour = pch,
          !.cocktail_hour_minutes = ch] :
        fl \in BOOLEAN, b \in BufferChoices, fd \in FamilyDynamicsChoices,
        fg \in {None, 4}, rl \in BOOLEAN, pch \in BOOLEAN,
        ch \in {60, 87, 100} }

\* Reception anchors: reception start and hard times of sequential events
AnchorInputs ==
    { [WithCoverageHours(DefaultInputs, ch) EXCEPT
          !.first_look = fl, !.buffer_minutes = b,
          !.reception_start = rs,
          !.reception_events.dancefloor_coverage = dc,
          !.reception_events.grand_entrance_time = ge,
          !.reception_events.dinner_start_time = dn] :
        fl \in BOOLEAN, b \in BufferChoices, ch \in {8, 11}, dc \in BOOLEAN,
        rs \in OptionalTimes({Clock(17, 0), Clock(19, 0), Clock(21, 0)}),
        ge \in OptionalTimes({Clock(17, 30), Clock(21, 30)}),
        dn \in OptionalTimes({Clock(18, 0), Clock(22, 45)}) }

\* Dancefloor window, embedded events and golden hour
DancefloorInputs ==
    { [WithCoverageHours(DefaultInputs, ch) EXCEPT
          !.buffer_minutes = b, !.sunset_time = ss,
          !.reception_events.dancefloor_coverage = dc,
          !.reception_events.dancefloor_minutes = dm,
          !.reception_events.cake_cutting_time = ck,
          !.reception_events.bouquet_toss = tosses,
          !.reception_events.garter_toss = tosses] :
        b \in BufferChoices, ch \in {8, 11},
        ss \in OptionalTimes({Clock(19, 30), Clock(23, 30)}),
        dc \in BOOLEAN, dm \in {0, 5, 90},
        ck \in OptionalTimes({Clock(18, 0), Clock(21, 30), Clock(23, 30)}),
        tosses \in BOOLEAN }

\* Toggles of the sequential reception events
ToggleInputs ==
    { [DefaultInputs EXCEPT
          !.buffer_minutes = b,
          !.reception_events.grand_entrance = ge,
          !.reception_events.first_dance = fdn,
          !.reception_events.father_daughter_dance = pd,
          !.reception_events.toasts = ts,
          !.reception_events.dinner = dn,
          !.reception_events.cake_cutting = ck,
          !.reception_events.dancefloor_coverage = dc] :
        b \in BufferChoices, ge \in BOOLEAN, fdn \in BOOLEAN, pd \in BOOLEAN,
        ts \in BOOLEAN, dn \in BOOLEAN, ck \in BOOLEAN, dc \in BOOLEAN }

\* Hard times of the other sequential events, dancefloor embedding on or off
HardTimeInputs ==
    { [DefaultInputs EXCEPT
          !.buffer_minutes = b,
          !.reception_events.dancefloor_coverage = dc,
          !.reception_events.father_daughter_dance = TRUE,
          !.reception_events.bouquet_toss = TRUE,
          !.reception_events.garter_toss = TRUE,
          !.reception_events.first_dance_time = fdt,
          !.reception_events.parent_dances_time = pdt,
          !.reception_events.toasts_time = tst,
          !.reception_events.bouquet_toss_time = bqt,
          !.reception_events.garter_toss_time = gtt] :
        b \in BufferChoices, dc \in BOOLEAN,
        fdt \in OptionalTimes({Clock(17, 0), Clock(21, 0)}),
        pdt \in OptionalTimes({Clock(18, 30)}),
        tst \in OptionalTimes({Clock(17, 15), Clock(22, 0)}),
        bqt \in OptionalTimes({Clock(19, 0)}),
        gtt \in OptionalTimes({Clock(23, 0)}) }

\* The EventInputs values build_timeline is called with
InputSpace ==
    PrepInputs \cup PortraitInputs \cup AnchorInputs \cup DancefloorInputs
        \cup ToggleInputs \cup HardTimeInputs

-----------------------------------------------------------------------------
(* Block helpers.  An accumulator a holds the locals of build_timeline     *)
(* (blocks, warnings, t, dancefloor_start, dancefloor_end) and ret, the    *)
(* value returned by the last helper call.                                  *)

_add_block(a, name, start, minutes, location, audience, kind) ==
    LET end == add_minutes(start, minutes)
    IN  [a EXCEPT
            !.blocks = Append(@, TimelineBlock(name, start, end, location,
                                               audience, kind)),
            !.ret = end]

\* Mutant: the buffer is dropped, the cursor does not move
_add_buffer_Dropped(a, tm, buffer_minutes, location) == [a EXCEPT !.ret = tm]

_add_buffer(a, tm, buffer_minutes, location) ==
    IF buffer_minutes <= 0
    THEN [a EXCEPT !.ret = tm]
    ELSE _add_block(a, "Buffer/transition", tm, buffer_minutes, location,
                    "Vendor", "buffer")

_add_travel(a, tm, travel_minutes, from_to) ==
    IF travel_minutes <= 0
    THEN [a EXCEPT !.ret = tm]
    ELSE _add_block(a, from_to, tm, travel_minutes, "In transit", "Vendor",
                    "travel")

_add_gap_to_cocktail_hour(a, tm, gap_minutes, location) ==
    IF gap_minutes <= 0
    THEN [a EXCEPT !.ret = tm]
    ELSE _add_block(a, "Gap before cocktail hour", tm, gap_minutes, location,
                    "Vendor", "buffer")

_family_minutes(inp) ==
    IF inp.family_groupings # None /\ inp.family_groupings # 0
       /\ inp.family_groupings > 0
    THEN inp.family_groupings * inp.minutes_per_family_grouping
    ELSE inp.family_portraits_minutes

\* Mutant: the marker is placed at the end of the last block
_add_coverage_end_marker_AtLastEnd(a, inp) ==
    [a EXCEPT !.blocks = Append(@, TimelineBlock("Coverage ends",
                                    a.blocks[Len(a.blocks)].end,
                                    a.blocks[Len(a.blocks)].end,
                                    "-", "Internal", "coverage"))]

_add_coverage_end_marker(a, inp) ==
    [a EXCEPT !.blocks = Append(@, TimelineBlock("Coverage ends",
                                    inp.coverage_end, inp.coverage_end,
                                    "-", "Internal", "coverage"))]

\* t = <helper call>: the cursor takes the returned end time
SetT(a) == [a EXCEPT !.t = a.ret]

\* t = _add_block(blocks, name, t, minutes, ...)
BlockAtCursor(a, name, minutes, location, kind) ==
    SetT(_add_block(a, name, a.t, minutes, location, "Vendor", kind))

\* t = _add_buffer(blocks, t, minutes, location)
BufferAtCursor(a, minutes, location) ==
    SetT(_add_buffer(a, a.t, minutes, location))

\* warnings.append(...)
Warn(a, w) == [a EXCEPT !.warnings = Append(@, w)]

\* x or y on strings (an empty string is falsy)
OrElse(x, y) == IF x # "" THEN x ELSE y

portrait_location(inp) ==
    OrElse(inp.portraits_location,
           OrElse(inp.ceremony_location, inp.getting_ready_location))

extra_family_buffer(inp) ==
    IF inp.family_dynamics.divorced_parents
       \/ inp.family_dynamics.strained_relationships
       \/ inp.family_dynamics.finicky_family_members
    THEN Max2(5, inp.buffer_minutes \div 2)
    ELSE 0

-----------------------------------------------------------------------------
(* The sections of build_timeline, each a function of the inputs and the   *)
(* accumulator.                                                             *)

\* Mutant: the cursor follows the arrival also when it is before coverage_start
ArrivalSection_CursorFollows(inp, a) ==
    IF inp.photographer_arrival_time # None
    THEN LET a1 == _add_block(a, "Photographer arrival",
                        inp.photographer_arrival_time, 0,
                        inp.getting_ready_location, "Vendor", "event")
             setup == inp.arrival_setup_minutes > 0
             a2 == IF setup
                   THEN _add_block(a1, "Arrival/Gear setup",
                            inp.photographer_arrival_time,
                            inp.arrival_setup_minutes,
                            inp.getting_ready_location, "Vendor", "photo")
                   ELSE a1
             arrival_end == IF setup THEN a2.ret
                            ELSE inp.photographer_arrival_time
         IN  [a2 EXCEPT !.t = arrival_end]
    ELSE a

\* Photographer arrival
ArrivalSection(inp, a) ==
    IF inp.photographer_arrival_time # None
    THEN LET a1 == _add_block(a, "Photographer arrival",
                        inp.photographer_arrival_time, 0,
                        inp.getting_ready_location, "Vendor", "event")
             setup == inp.arrival_setup_minutes > 0
             a2 == IF setup
                   THEN _add_block(a1, "Arrival/Gear setup",
                            inp.photographer_arrival_time,
                            inp.arrival_setup_minutes,
                            inp.getting_ready_location, "Vendor", "photo")
                   ELSE a1
             arrival_end == IF setup THEN a2.ret
                            ELSE inp.photographer_arrival_time
         IN  IF arrival_end > a2.t THEN [a2 EXCEPT !.t = arrival_end] ELSE a2
    ELSE a

\* Flat lay, getting dressed, individual portraits, travel to the ceremony
PrepSection(inp, a) ==
    LET gr == inp.getting_ready_location
        a1 == BlockAtCursor(a, "Flat lay & details",
                            inp.flatlay_details_minutes, gr, "photo")
        a2 == BufferAtCursor(a1, inp.buffer_minutes, gr)
        a3 == BlockAtCursor(a2, "Getting dressed",
                            inp.getting_dressed_minutes, gr, "photo")
        a4 == BufferAtCursor(a3, inp.buffer_minutes, gr)
        a5 == BlockAtCursor(a4, "Individual portraits",
                            inp.individual_portraits_minutes, gr, "photo")
        a6 == BufferAtCursor(a5, inp.buffer_minutes, gr)
        a7 == SetT(_add_travel(a6, a6.t, inp.travel_gr_to_ceremony_minutes,
                               "Travel: Getting ready -> Ceremony"))
    IN  BufferAtCursor(a7, inp.buffer_minutes, inp.ceremony_location)

\* First look flow: all portraits before the ceremony
FirstLookSection(inp, a) ==
    IF inp.first_look
    THEN LET pl == portrait_location(inp)
             a1 == BlockAtCursor(a, "First look", inp.first_look_minutes,
                                 pl, "photo")
             a2 == BufferAtCursor(a1, inp.buffer_minutes, pl)
             a3 == BlockAtCursor(a2, "Couple portraits",
                                 inp.couple_portraits_minutes, pl, "photo")
             a4 == BufferAtCursor(a3, inp.buffer_minutes, pl)
             a5 == BlockAtCursor(a4, "Wedding party portraits",
                                 inp.wedding_party_portraits_minutes, pl,
                                 "photo")
             a6 == BufferAtCursor(a5, inp.buffer_minutes, pl)
             a7 == BlockAtCursor(a6, "Family portraits",
                                 _family_minutes(inp), pl, "photo")
         IN  BufferAtCursor(a7,
                 inp.buffer_minutes + extra_family_buffer(inp), pl)
    ELSE a

\* Mutant: the tuckaway is not capped at the slack
TuckawaySection_Uncapped(inp, a) ==
    LET a3 ==
          IF a.t < inp.ceremony_start
          THEN LET slack0 == minutes_between(a.t, inp.ceremony_start)
                   tuck_mins == inp.tuckaway_minutes
                   a1 == IF tuck_mins > 0
                         THEN BlockAtCursor(a, "Tuckaway before ceremony",
                                  tuck_mins, inp.ceremony_location, "photo")
                         ELSE a
                   slack == IF tuck_mins > 0
                            THEN minutes_between(a1.t, inp.ceremony_start)
                            ELSE slack0
               IN  IF slack >= 8
                   THEN BlockAtCursor(a1, "Flexible pre-ceremony coverage",
                            slack, inp.ceremony_location, "buffer")
                   ELSE a1
          ELSE IF inp.tuckaway_minutes > 0
               THEN Warn(a, Warning(
                        "No time available before the ceremony for tuckaway",
                        "", 0, <<>>))
               ELSE a
    IN  IF a3.t > inp.ceremony_start
        THEN Warn(a3, Warning(
                 "Pre-ceremony schedule runs N min past ceremony start", "",
                 minutes_between(inp.ceremony_start, a3.t), <<>>))
        ELSE a3

\* Mutant: the tuckaway warning needs a cursor strictly after ceremony_start
TuckawaySection_StrictNoTime(inp, a) ==
    LET a3 ==
          IF a.t < inp.ceremony_start
          THEN LET slack0 == minutes_between(a.t, inp.ceremony_start)
                   tuck_mins == Min2(inp.tuckaway_minutes, slack0)
                   a1 == IF tuck_mins > 0
                         THEN BlockAtCursor(a, "Tuckaway before ceremony",
                                  tuck_mins, inp.ceremony_location, "photo")
                         ELSE a
                   slack == IF tuck_mins > 0
                            THEN minutes_between(a1.t, inp.ceremony_start)
                            ELSE slack0
               IN  IF slack >= 8
                   THEN BlockAtCursor(a1, "Flexible pre-ceremony coverage",
                            slack, inp.ceremony_location, "buffer")
                   ELSE a1
          ELSE IF inp.tuckaway_minutes > 0 /\ a.t > inp.ceremony_start
               THEN Warn(a, Warning(
                        "No time available before the ceremony for tuckaway",
                        "", 0, <<>>))
               ELSE a
    IN  IF a3.t > inp.ceremony_start
        THEN Warn(a3, Warning(
                 "Pre-ceremony schedule runs N min past ceremony start", "",
                 minutes_between(inp.ceremony_start, a3.t), <<>>))
        ELSE a3

\* Pre-ceremony tuckaway, filler and the two pre-ceremony warnings
TuckawaySection(inp, a) ==
    LET a3 ==
          IF a.t < inp.ceremony_start
          THEN LET slack0 == minutes_between(a.t, inp.ceremony_start)
                   tuck_mins == Min2(inp.tuckaway_minutes, slack0)
                   a1 == IF tuck_mins > 0
                         THEN BlockAtCursor(a, "Tuckaway before ceremony",
                                  tuck_mins, inp.ceremony_location, "photo")
                         ELSE a
                   slack == IF tuck_mins > 0
                            THEN minutes_between(a1.t, inp.ceremony_start)
                            ELSE slack0
               IN  IF slack >= 8
                   THEN BlockAtCursor(a1, "Flexible pre-ceremony coverage",
                            slack, inp.ceremony_location, "buffer")
                   ELSE a1
          ELSE IF inp.tuckaway_minutes > 0
               THEN Warn(a, Warning(
                        "No time available before the ceremony for tuckaway",
                        "", 0, <<>>))
               ELSE a
    IN  IF a3.t > inp.ceremony_start
        THEN Warn(a3, Warning(
                 "Pre-ceremony schedule runs N min past ceremony start", "",
                 minutes_between(inp.ceremony_start, a3.t), <<>>))
        ELSE a3

\* Mutant: the ceremony waits for a late cursor
CeremonySection_AtCursor(inp, a) ==
    LET a0 == [a EXCEPT !.t = Max2(a.t, inp.ceremony_start)]
        a1 == BlockAtCursor(a0, "Ceremony", inp.ceremony_minutes,
                            inp.ceremony_location, "event")
        a2 == IF inp.receiving_line
              THEN BufferAtCursor(
                       BlockAtCursor(a1, "Receiving line",
                           inp.receiving_line_minutes,
                           inp.ceremony_location, "event"),
                       inp.buffer_minutes, inp.ceremony_location)
              ELSE a1
    IN  BufferAtCursor(a2, inp.buffer_minutes, inp.ceremony_location)

\* Ceremony, receiving line, reset buffer
CeremonySection(inp, a) ==
    LET a0 == [a EXCEPT !.t = inp.ceremony_start]
        a1 == BlockAtCursor(a0, "Ceremony", inp.ceremony_minutes,
                            inp.ceremony_location, "event")
        a2 == IF inp.receiving_line
              THEN BufferAtCursor(
                       BlockAtCursor(a1, "Receiving line",
                           inp.receiving_line_minutes,
                           inp.ceremony_location, "event"),
                       inp.buffer_minutes, inp.ceremony_location)
              ELSE a1
    IN  BufferAtCursor(a2, inp.buffer_minutes, inp.ceremony_location)

\* Mutant: the feasibility warning is also appended when the estimate equals
\* the cocktail hour
PostCeremonyPortraits_AtLeast(inp, a) ==
    LET pl == portrait_location(inp)
        fam_minutes == _family_minutes(inp)
        a1 == BlockAtCursor(a, "Family portraits", fam_minutes, pl, "photo")
        a2 == BufferAtCursor(a1,
                  inp.buffer_minutes + extra_family_buffer(inp), pl)
        a3 == BlockAtCursor(a2, "Wedding party portraits",
                  inp.wedding_party_portraits_minutes, pl, "photo")
        a4 == BufferAtCursor(a3, inp.buffer_minutes, pl)
        a5 == BlockAtCursor(a4, "Couple portraits",
                  inp.couple_portraits_minutes, pl, "photo")
        a6 == BufferAtCursor(a5, inp.buffer_minutes, pl)
        est_post == fam_minutes + inp.wedding_party_portraits_minutes
                    + inp.couple_portraits_minutes
                    + (IF inp.receiving_line
                       THEN inp.receiving_line_minutes ELSE 0)
        a7 == IF est_post >= inp.cocktail_hour_minutes
              THEN Warn(a6, Warning(
                  "No first look: estimated post-ceremony portraits",
                  "", est_post, <<>>))
              ELSE a6
    IN  IF inp.protect_cocktail_hour
        THEN Warn(a7, Warning(
            "Protect cocktail hour is enabled but there is no first look",
            "", 0, <<>>))
        ELSE a7

\* The post-ceremony portraits and their feasibility warnings
PostCeremonyPortraits(inp, a) ==
    LET pl == portrait_location(inp)
        fam_minutes == _family_minutes(inp)
        a1 == BlockAtCursor(a, "Family portraits", fam_minutes, pl, "photo")
        a2 == BufferAtCursor(a1,
                  inp.buffer_minutes + extra_family_buffer(inp), pl)
        a3 == BlockAtCursor(a2, "Wedding party portraits",
                  inp.wedding_party_portraits_minutes, pl, "photo")
        a4 == BufferAtCursor(a3, inp.buffer_minutes, pl)
        a5 == BlockAtCursor(a4, "Couple portraits",
                  inp.couple_portraits_minutes, pl, "photo")
        a6 == BufferAtCursor(a5, inp.buffer_minutes, pl)
        est_post == fam_minutes + inp.wedding_party_portraits_minutes
                    + inp.couple_portraits_minutes
                    + (IF inp.receiving_line
                       THEN inp.receiving_line_minutes ELSE 0)
        a7 == IF est_post > inp.cocktail_hour_minutes
              THEN Warn(a6, Warning(
                  "No first look: estimated post-ceremony portraits",
                  "", est_post, <<>>))
              ELSE a6
    IN  IF inp.protect_cocktail_hour
        THEN Warn(a7, Warning(
            "Protect cocktail hour is enabled but there is no first look",
            "", 0, <<>>))
        ELSE a7

\* Mutant: the portraits are scheduled after the ceremony whatever first_look
PostCeremonySection_NoGuard(inp, a) == PostCeremonyPortraits(inp, a)

\* Post-ceremony portraits only when there is no first look
PostCeremonySection(inp, a) ==
    IF ~inp.first_look THEN PostCeremonyPortraits(inp, a) ELSE a

\* Mutant: the travel block is emitted but the cursor is not advanced
TravelToReceptionSection_CursorKept(inp, a) ==
    [_add_travel(a, a.t, inp.travel_ceremony_to_reception_minutes,
                 "Travel: Ceremony -> Reception")
     EXCEPT !.ret = a.ret]

\* Travel to reception
TravelToReceptionSection(inp, a) ==
    SetT(_add_travel(a, a.t, inp.travel_ceremony_to_reception_minutes,
                     "Travel: Ceremony -> Reception"))

\* Mutant: the cocktail hour without first look gets a kind of its own
cocktail_kind_Other(inp) == IF inp.first_look THEN "photo" ELSE "cocktail"

cocktail_kind(inp) == IF inp.first_look THEN "photo" ELSE "window"

\* Mutant: no buffer follows the cocktail hour
CocktailHourSection_NoBuffer(inp, a) ==
    LET cocktail_location ==
            OrElse(inp.reception_location, inp.ceremony_location)
        anchored == inp.reception_start # None
        anchored_start ==
            add_minutes(inp.reception_start, -inp.cocktail_hour_minutes)
        a1 == IF anchored
              THEN IF anchored_start < a.t
                   THEN Warn(a, Warning(
                       "Cocktail hour start is earlier than the current timeline position",
                       "", 0,
                       <<safe_fmt_time(anchored_start), safe_fmt_time(a.t)>>))
                   ELSE a
              ELSE IF ~inp.cocktail_hour_follows_ceremony
                   THEN _add_gap_to_cocktail_hour(a, a.t,
                            inp.ceremony_to_cocktail_gap_minutes,
                            cocktail_location)
                   ELSE a
        cocktail_start ==
            IF anchored THEN anchored_start
            ELSE IF ~inp.cocktail_hour_follows_ceremony THEN a1.ret
            ELSE a.t
        a2 == _add_block(a1, "Cocktail hour", cocktail_start,
                         inp.cocktail_hour_minutes, cocktail_location,
                         "Vendor", cocktail_kind(inp))
    IN  [a2 EXCEPT
            !.t = add_minutes(cocktail_start, inp.cocktail_hour_minutes)]

\* Cocktail hour, always included exactly once
\* Mutant: an anchored cocktail hour never starts before the cursor
CocktailHourSection_AfterCursor(inp, a) ==
    LET cocktail_location ==
            OrElse(inp.reception_location, inp.ceremony_location)
        anchored == inp.reception_start # None
        anchored_start ==
            add_minutes(inp.reception_start, -inp.cocktail_hour_minutes)
        a1 == IF anchored
              THEN IF anchored_start < a.t
                   THEN Warn(a, Warning(
                       "Cocktail hour start is earlier than the current timeline position",
                       "", 0,
                       <<safe_fmt_time(anchored_start), safe_fmt_time(a.t)>>))
                   ELSE a
              ELSE IF ~inp.cocktail_hour_follows_ceremony
                   THEN _add_gap_to_cocktail_hour(a, a.t,
                            inp.ceremony_to_cocktail_gap_minutes,
                            cocktail_location)
                   ELSE a
        cocktail_start ==
            IF anchored THEN Max2(anchored_start, a.t)
            ELSE IF ~inp.cocktail_hour_follows_ceremony THEN a1.ret
            ELSE a.t
        a2 == _add_block(a1, "Cocktail hour", cocktail_start,
                         inp.cocktail_hour_minutes, cocktail_location,
                         "Vendor", cocktail_kind(inp))
        a3 == [a2 EXCEPT
                 !.t = add_minutes(cocktail_start, inp.cocktail_hour_minutes)]
    IN  BufferAtCursor(a3, inp.buffer_minutes, cocktail_location)

CocktailHourSection(inp, a) ==
    LET cocktail_location ==
            OrElse(inp.reception_location, inp.ceremony_location)
        anchored == inp.reception_start # None
        anchored_start ==
            add_minutes(inp.reception_start, -inp.cocktail_hour_minutes)
        a1 == IF anchored
              THEN IF anchored_start < a.t
                   THEN Warn(a, Warning(
                       "Cocktail hour start is earlier than the current timeline position",
                       "", 0,
                       <<safe_fmt_time(anchored_start), safe_fmt_time(a.t)>>))
                   ELSE a
              ELSE IF ~inp.cocktail_hour_follows_ceremony
                   THEN _add_gap_to_cocktail_hour(a, a.t,
                            inp.ceremony_to_cocktail_gap_minutes,
                            cocktail_location)
                   ELSE a
        cocktail_start ==
            IF anchored THEN anchored_start
            ELSE IF ~inp.cocktail_hour_follows_ceremony THEN a1.ret
            ELSE a.t
        a2 == _add_block(a1, "Cocktail hour", cocktail_start,
                         inp.cocktail_hour_minutes, cocktail_location,
                         "Vendor", cocktail_kind(inp))
        a3 == [a2 EXCEPT
                 !.t = add_minutes(cocktail_start, inp.cocktail_hour_minutes)]
    IN  BufferAtCursor(a3, inp.buffer_minutes, cocktail_location)

\* Reception start anchor
ReceptionStartSection(inp, a) ==
    IF inp.reception_start # None
    THEN LET a1 == _add_block(a, "Reception start", inp.reception_start, 0,
                        inp.reception_location, "Vendor", "event")
             a2 == IF a1.t > inp.reception_start
                   THEN Warn(a1, Warning(
                       "Arrives N min after reception start time you entered",
                       "", minutes_between(inp.reception_start, a1.t), <<>>))
                   ELSE a1
         IN  IF a2.t < inp.reception_start
                /\ minutes_between(a2.t, inp.reception_start) >= 10
             THEN [BlockAtCursor(a2,
                       "Reception details (before guests enter)",
                       minutes_between(a2.t, inp.reception_start),
                       inp.reception_location, "photo")
                   EXCEPT !.t = inp.reception_start]
             ELSE a2
    ELSE a

-----------------------------------------------------------------------------
(* Reception events *)

\* Mutant: a hard time earlier than the cursor does not move the cursor back
schedule_event_if_toggle_CursorWins(inp, a, name, enabled, when, minutes) ==
    IF ~enabled
    THEN a
    ELSE LET a1 == IF when # None
                   THEN IF when < a.t
                        THEN Warn(a, Warning(
                            "time is earlier than current timeline position",
                            name, 0,
                            <<safe_fmt_time(when), safe_fmt_time(a.t)>>))
                        ELSE [a EXCEPT !.t = when]
                   ELSE a
             a2 == BlockAtCursor(a1, name, minutes, inp.reception_location,
                                 "event")
         IN  BufferAtCursor(a2, inp.buffer_minutes, inp.reception_location)

schedule_event_if_toggle(inp, a, name, enabled, when, minutes) ==
    IF ~enabled
    THEN a
    ELSE LET a1 == IF when # None
                   THEN [(IF when < a.t
                          THEN Warn(a, Warning(
                              "time is earlier than current timeline position",
                              name, 0,
                              <<safe_fmt_time(when), safe_fmt_time(a.t)>>))
                          ELSE a)
                         EXCEPT !.t = when]
                   ELSE a
             a2 == BlockAtCursor(a1, name, minutes, inp.reception_location,
                                 "event")
         IN  BufferAtCursor(a2, inp.buffer_minutes, inp.reception_location)

\* Mutant: the end of the embedded block is clamped to dancefloor_end, its
\* start is not clamped
place_embedded_event_ClampEnd(inp, a, name, enabled, when, minutes, default_offset_min) ==
    IF ~enabled
    THEN a
    ELSE IF a.dancefloor_start = None \/ a.dancefloor_end = None
    THEN a
    ELSE LET s0 == IF when # None THEN when
                   ELSE add_minutes(a.dancefloor_start, default_offset_min)
         IN  [a EXCEPT !.blocks = Append(@, TimelineBlock(name, s0,
                           Min2(add_minutes(s0, minutes), a.dancefloor_end),
                           inp.reception_location, "Vendor", "event"))]

place_embedded_event(inp, a, name, enabled, when, minutes, default_offset_min) ==
    IF ~enabled
    THEN a
    ELSE IF a.dancefloor_start = None \/ a.dancefloor_end = None
    THEN a
    ELSE LET s0 == IF when # None THEN when
                   ELSE add_minutes(a.dancefloor_start, default_offset_min)
             s1 == IF s0 < a.dancefloor_start THEN a.dancefloor_start ELSE s0
             s2 == IF s1 > add_minutes(a.dancefloor_end, -minutes)
                   THEN add_minutes(a.dancefloor_end, -minutes)
                   ELSE s1
         IN  [_add_block(a, name, s2, minutes, inp.reception_location,
                         "Vendor", "event")
              EXCEPT !.ret = a.ret]

GrandEntranceSection(inp, a) ==
    schedule_event_if_toggle(inp, a, "Grand entrance",
        inp.reception_events.grand_entrance,
        inp.reception_events.grand_entrance_time,
        inp.reception_events.grand_entrance_minutes)

FirstDanceSection(inp, a) ==
    schedule_event_if_toggle(inp, a, "First dance",
        inp.reception_events.first_dance,
        inp.reception_events.first_dance_time,
        inp.reception_events.first_dance_minutes)

ParentDancesSection(inp, a) ==
    schedule_event_if_toggle(inp, a, "Parent dances",
        inp.reception_events.father_daughter_dance
            \/ inp.reception_events.mother_son_dance,
        inp.reception_events.parent_dances_time,
        inp.reception_events.parent_dances_minutes)

ToastsSection(inp, a) ==
    schedule_event_if_toggle(inp, a, "Toasts",
        inp.reception_events.toasts,
        inp.reception_events.toasts_time,
        inp.reception_events.toasts_minutes)

DinnerSection(inp, a) ==
    LET re == inp.reception_events
    IN  IF re.dinner /\ re.dinner_start_time # None
        THEN LET a1 == IF re.dinner_start_time < a.t
                       THEN Warn(a, Warning(
                           "Dinner start is earlier than current timeline position",
                           "", 0,
                           <<safe_fmt_time(re.dinner_start_time),
                             safe_fmt_time(a.t)>>))
                       ELSE a
                 a2 == [a1 EXCEPT !.t = re.dinner_start_time]
                 a3 == BlockAtCursor(a2, "Dinner", re.dinner_minutes,
                                     inp.reception_location, "event")
             IN  BufferAtCursor(a3, inp.buffer_minutes,
                                inp.reception_location)
        ELSE IF re.dinner
        THEN BufferAtCursor(
                 BlockAtCursor(a, "Dinner", re.dinner_minutes,
                               inp.reception_location, "event"),
                 inp.buffer_minutes, inp.reception_location)
        ELSE a

\* The continuous dancefloor block
DancefloorSection(inp, a) ==
    LET re == inp.reception_events
    IN  IF re.dancefloor_coverage
        THEN LET a1 == [a EXCEPT
                          !.dancefloor_start = a.t,
                          !.dancefloor_end =
                              add_minutes(a.t, re.dancefloor_minutes)]
             IN  _add_block(a1, "Dancefloor coverage", a1.dancefloor_start,
                            re.dancefloor_minutes, inp.reception_location,
                            "Vendor", "photo")
        ELSE a

\* Cake cutting, bouquet toss, garter toss: embedded in the dancefloor window
\* or scheduled one after the other
CakeBouquetGarterSection(inp, a) ==
    LET re == inp.reception_events
    IN  IF re.dancefloor_coverage
        THEN LET a1 == place_embedded_event(inp, a, "Cake cutting",
                           re.cake_cutting, re.cake_cutting_time,
                           re.cake_cutting_minutes, 15)
                 a2 == place_embedded_event(inp, a1, "Bouquet toss",
                           re.bouquet_toss, re.bouquet_toss_time,
                           re.bouquet_toss_minutes, 45)
                 a3 == place_embedded_event(inp, a2, "Garter toss",
                           re.garter_toss, re.garter_toss_time,
                           re.garter_toss_minutes, 55)
             IN  [a3 EXCEPT !.t = a3.dancefloor_end]
        ELSE LET a1 == schedule_event_if_toggle(inp, a, "Cake cutting",
                           re.cake_cutting, re.cake_cutting_time,
                           re.cake_cutting_minutes)
                 a2 == schedule_event_if_toggle(inp, a1, "Bouquet toss",
                           re.bouquet_toss, re.bouquet_toss_time,
                           re.bouquet_toss_minutes)
             IN  schedule_event_if_toggle(inp, a2, "Garter toss",
                     re.garter_toss, re.garter_toss_time,
                     re.garter_toss_minutes)

\* Mutant: the golden-hour block is inserted at its chronological position
GoldenHourSection_Chronological(inp, a) ==
    IF inp.sunset_time # None
    THEN LET golden_start == add_minutes(inp.sunset_time, -30)
             golden ==
                 TimelineBlock("Golden hour portraits", golden_start,
                     add_minutes(golden_start, inp.golden_hour_window_minutes),
                     OrElse(portrait_location(inp),
                            OrElse(inp.reception_location,
                                   inp.ceremony_location)),
                     "Vendor", "photo")
         IN  [a EXCEPT !.blocks =
                 SelectSeq(a.blocks, LAMBDA b : b.start <= golden_start)
                 \o <<golden>>
                 \o SelectSeq(a.blocks, LAMBDA b : b.start > golden_start)]
    ELSE a

\* Mutant: the golden-hour block starts at sunset
GoldenHourSection_AtSunset(inp, a) ==
    IF inp.sunset_time # None
    THEN [_add_block(a, "Golden hour portraits",
              inp.sunset_time,
              inp.golden_hour_window_minutes,
              OrElse(portrait_location(inp),
                     OrElse(inp.reception_location, inp.ceremony_location)),
              "Vendor", "photo")
          EXCEPT !.ret = a.ret]
    ELSE a

\* Sunset marker
GoldenHourSection(inp, a) ==
    IF inp.sunset_time # None
    THEN [_add_block(a, "Golden hour portraits",
              add_minutes(inp.sunset_time, -30),
              inp.golden_hour_window_minutes,
              OrElse(portrait_location(inp),
                     OrElse(inp.reception_location, inp.ceremony_location)),
              "Vendor", "photo")
          EXCEPT !.ret = a.ret]
    ELSE a

RECURSIVE MaxEnd(_, _)
\* max((b.end for b in bs), default=default)
MaxEnd(bs, default) ==
    IF bs = <<>> THEN default
    ELSE LET rest == MaxEnd(Tail(bs), default)
         IN  IF Len(bs) = 1 THEN Head(bs).end ELSE Max2(Head(bs).end, rest)

\* Mutant: the cursor is compared with coverage_end, not the latest block end
CoverageCheckSection_Cursor(inp, a) ==
    IF a.t > inp.coverage_end
    THEN Warn(a, Warning("Timeline runs N min past coverage end", "",
                 minutes_between(inp.coverage_end, a.t),
                 <<safe_fmt_time(inp.coverage_end)>>))
    ELSE a

\* Coverage constraint check
CoverageCheckSection(inp, a) ==
    LET latest_end == MaxEnd(a.blocks, inp.coverage_start)
    IN  IF latest_end > inp.coverage_end
        THEN Warn(a, Warning("Timeline runs N min past coverage end", "",
                     minutes_between(inp.coverage_end, latest_end),
                     <<safe_fmt_time(inp.coverage_end)>>))
        ELSE a

CoverageEndSection(inp, a) == _add_coverage_end_marker(a, inp)

-----------------------------------------------------------------------------
(* Coverage analytics *)

\* Mutant: the block is not clipped at the end of the window
_overlap_minutes_NoEndClip(a_start, a_end, w_start, w_end) ==
    LET start == Max2(a_start, w_start)
    IN  IF a_end <= start THEN 0 ELSE (a_end - start) \div SecondsPerMinute

_overlap_minutes(a_start, a_end, w_start, w_end) ==
    LET start == Max2(a_start, w_start)
        end == Min2(a_end, w_end)
    IN  IF end <= start THEN 0 ELSE (end - start) \div SecondsPerMinute

\* Mutant: only the sentinel is skipped, 'window' blocks are counted
SkippedKinds_CoverageOnly == {"coverage"}

\* The kinds every analytics loop skips
SkippedKinds == {"coverage", "window"}

\* The blocks whose name starts with "Dancefloor coverage" (build_timeline
\* emits that prefix only as the whole name), as (start, end) pairs
_dancefloor_intervals(bs) ==
    LET df == SelectSeq(bs, LAMBDA b : b.name = "Dancefloor coverage")
    IN  [i \in 1..Len(df) |-> <<df[i].start, df[i].end>>]

RECURSIVE SumSeq(_)
\* sum of a sequence of integers
SumSeq(s) == IF s = <<>> THEN 0 ELSE Head(s) + SumSeq(Tail(s))

_embedded_in_dancefloor_minutes(b, dancefloor_intervals, coverage_start,
                                coverage_end) ==
    SumSeq([i \in 1..Len(dancefloor_intervals) |->
              _overlap_minutes(b.start, b.end,
                               Max2(dancefloor_intervals[i][1], coverage_start),
                               Min2(dancefloor_intervals[i][2], coverage_end))])

EmbeddableNames == {"Cake cutting", "Bouquet toss", "Garter toss"}

\* Mutant: the minutes inside the dancefloor intervals are not subtracted
allocation_minutes_NoSubtraction(b, dancefloor, coverage_start, coverage_end) ==
    _overlap_minutes(b.start, b.end, coverage_start, coverage_end)

\* The body of the loop shared by coverage_allocation_by_kind and
\* coverage_allocation_top_blocks: the minutes a block not of a skipped kind
\* accounts for (0: the block gives no row)
allocation_minutes(b, dancefloor, coverage_start, coverage_end) ==
    LET mins == _overlap_minutes(b.start, b.end, coverage_start, coverage_end)
    IN  IF mins <= 0 THEN 0
        ELSE IF /\ b.kind = "event"
                /\ b.name \in EmbeddableNames
                /\ dancefloor # <<>>
             THEN Max2(0, mins - _embedded_in_dancefloor_minutes(
                                     b, dancefloor, coverage_start,
                                     coverage_end))
             ELSE mins

\* rows: one per block not skipped with positive minutes, in list order
allocation_rows(bs, coverage_start, coverage_end) ==
    LET dancefloor == _dancefloor_intervals(bs)
        all == [i \in 1..Len(bs) |->
                  [block |-> bs[i],
                   Minutes |-> IF bs[i].kind \in SkippedKinds THEN 0
                               ELSE allocation_minutes(bs[i], dancefloor,
                                        coverage_start, coverage_end)]]
    IN  SelectSeq(all, LAMBDA r : r.Minutes > 0)

\* f"{m} min ({round(m / 60, 2)} hr)": the minutes and the hours rounded to
\* hundredths (5m/3 is never half-way between two integers)
TimeUsed(m) == [min |-> m, hr_hundredths |-> (10 * m + 3) \div 6]

\* F applied to the value of v (v is evaluated once)
Let(v, F(_)) == CHOOSE r \in {F(x) : x \in {v}} : TRUE

\* DataFrame.sort_values on one integer column: the permutation that orders
\* keys ascending.  The default sort of pandas is not stable: rows of equal
\* key keep their order (tie = "first") or swap it (tie = "last").
sort_values(keys, tie) ==
    Let(keys, LAMBDA ks :
        LET n == Len(ks)
            Before(i, j) ==
                \/ ks[i] < ks[j]
                \/ /\ ks[i] = ks[j]
                   /\ IF tie = "first" THEN i < j ELSE i > j
        IN  Let([i \in 1..n |-> 1 + Cardinality({j \in 1..n : Before(j, i)})],
                LAMBDA rank : [p \in 1..n |-> CHOOSE i \in 1..n : rank[i] = p]))

TiePolicies == {"first", "last"}

\* groupby("Kind") sorts the group keys, which are strings
KindsSorted == <<"buffer", "event", "photo", "travel">>

coverage_allocation_by_kind(bs, coverage_start, coverage_end, tie) ==
    Let(allocation_rows(bs, coverage_start, coverage_end), LAMBDA rows :
        LET present ==
                SelectSeq(KindsSorted,
                    LAMBDA k : \E i \in 1..Len(rows) : rows[i].block.kind = k)
            grouped ==
                [g \in 1..Len(present) |->
                    [Kind |-> present[g],
                     Minutes |-> SumSeq([i \in 1..Len(rows) |->
                                    IF rows[i].block.kind = present[g]
                                    THEN rows[i].Minutes ELSE 0])]]
            order ==
                sort_values([g \in 1..Len(grouped) |-> 0 - grouped[g].Minutes],
                            tie)
        IN  [p \in 1..Len(grouped) |->
                [Kind |-> grouped[order[p]].Kind,
                 TimeUsed |-> TimeUsed(grouped[order[p]].Minutes)]])

\* one displayed row of coverage_allocation_top_blocks
TopBlocksRow(r) ==
    [Start |-> safe_fmt_time(r.block.start),
     End |-> safe_fmt_time(r.block.end),
     Block |-> r.block.name, Kind |-> r.block.kind,
     TimeUsed |-> TimeUsed(r.Minutes), Location |-> r.block.location]

\* sort_values("MinutesSort", ascending=False).head(top_n): the rows kept
TopRows(rows, top_n, tie) ==
    Let(sort_values([i \in 1..Len(rows) |-> 0 - rows[i].Minutes], tie),
        LAMBDA ranked : [p \in 1..Min2(top_n, Len(rows)) |-> rows[ranked[p]]])

\* Mutant: the rows are left in ranking order
coverage_allocation_top_blocks_Ranked(bs, coverage_start, coverage_end, top_n, tie) ==
    Let(allocation_rows(bs, coverage_start, coverage_end), LAMBDA rows :
    Let(TopRows(rows, top_n, tie), LAMBDA head :
        [p \in 1..Len(head) |-> TopBlocksRow(head[p])]))

coverage_allocation_top_blocks(bs, coverage_start, coverage_end, top_n, tie) ==
    Let(allocation_rows(bs, coverage_start, coverage_end), LAMBDA rows :
    Let(TopRows(rows, top_n, tie), LAMBDA head :
    Let(sort_values([p \in 1..Len(head) |-> head[p].block.start], tie),
        LAMBDA chrono :
            [p \in 1..Len(head) |-> TopBlocksRow(head[chrono[p]])])))

RECURSIVE LatestEnd(_, _)
\* the running maximum latest_end of coverage_totals, from its initial value
LatestEnd(bs, latest) ==
    IF bs = <<>> THEN latest
    ELSE LatestEnd(Tail(bs),
                   IF Head(bs).kind \in SkippedKinds THEN latest
                   ELSE Max2(latest, Head(bs).end))

\* Mutant: the minutes in coverage are the whole durations of the blocks
coverage_totals_WholeDurations(bs, coverage_start, coverage_end) ==
    LET counted == SelectSeq(bs, LAMBDA b : b.kind \notin SkippedKinds)
        scheduled_total == SumSeq([i \in 1..Len(counted) |->
                              Max2(0, duration_minutes(counted[i]))])
        latest_end == LatestEnd(bs, coverage_start)
    IN  [in_coverage_minutes |-> scheduled_total,
         scheduled_minutes_total |-> scheduled_total,
         overage_minutes |->
             IF latest_end > coverage_end
             THEN Max2(0, minutes_between(coverage_end, latest_end))
             ELSE 0]

coverage_totals(bs, coverage_start, coverage_end) ==
    LET counted == SelectSeq(bs, LAMBDA b : b.kind \notin SkippedKinds)
        in_cov == SumSeq([i \in 1..Len(counted) |->
                     _overlap_minutes(counted[i].start, counted[i].end,
                                      coverage_start, coverage_end)])
        scheduled_total == SumSeq([i \in 1..Len(counted) |->
                              Max2(0, duration_minutes(counted[i]))])
        latest_end == LatestEnd(bs, coverage_start)
        overage == IF latest_end > coverage_end
                   THEN Max2(0, minutes_between(coverage_end, latest_end))
                   ELSE 0
    IN  [in_coverage_minutes |-> in_cov,
         scheduled_minutes_total |-> scheduled_total,
         overage_minutes |-> overage]

-----------------------------------------------------------------------------
(* The state machine *)

Acc ==
    [blocks |-> blocks, warnings |-> warnings, t |-> t,
     dancefloor_start |-> dancefloor_start,
     dancefloor_end |-> dancefloor_end, ret |-> None]

Store(a) ==
    /\ blocks' = a.blocks
    /\ warnings' = a.warnings
    /\ t' = a.t
    /\ dancefloor_start' = a.dancefloor_start
    /\ dancefloor_end' = a.dancefloor_end

\* The sections of build_timeline, in program order
ProgramPoints ==
    {"arrival", "prep", "first_look", "tuckaway", "ceremony", "post_ceremony",
     "travel", "cocktail", "reception_start", "grand_entrance", "first_dance",
     "parent_dances", "toasts", "dinner", "dancefloor", "cake_bouquet_garter",
     "golden_hour", "coverage_check", "coverage_end"}

\* Mutant: the ceremony section raises when the pre-ceremony cursor overshot
SectionRuns_FailsOnOverrun(from) ==
    /\ pc = from
    /\ from = "ceremony" => t <= inputs.ceremony_start

\* A section runs when control reaches it: build_timeline has no raise and no
\* return before its last line
SectionRuns(from) == pc = from

\* One section of build_timeline: from program point `from` to `to`
Section(from, to, a) ==
    /\ SectionRuns(from)
    /\ Store(a)
    /\ pc' = to
    /\ UNCHANGED <<inputs, calls, history, ovArgs, ovResult, analytics>>

\* Entry of build_timeline: fresh lists, cursor at coverage_start
Enter(inp) ==
    /\ inputs = inp
    /\ pc = "arrival"
    /\ t = inp.coverage_start
    /\ blocks = <<>>
    /\ warnings = <<>>
    /\ dancefloor_start = None
    /\ dancefloor_end = None

\* The analytics results held by the caller: which functions have been
\* called, how many calls were made, the tie policy of the sort in use, and
\* the last value each function returned
NoAnalytics ==
    [calls |-> 0, tie |-> "first", called |-> {},
     totals |-> [in_coverage_minutes |-> 0, scheduled_minutes_total |-> 0,
                 overage_minutes |-> 0],
     by_kind |-> <<>>, top_n |-> 8, top_blocks |-> <<>>]

NoOverlapCall ==
    /\ ovArgs = <<0, 0, 0, 0>>
    /\ ovResult = None

\* No analytics function has been called on the blocks
NoAnalyticsCall == analytics = NoAnalytics

Init ==
    /\ \E inp \in InputSpace : Enter(inp)
    /\ calls = 1
    /\ history = <<>>
    /\ NoOverlapCall
    /\ NoAnalyticsCall

Arrival == Section("arrival", "prep", ArrivalSection(inputs, Acc))
Prep == Section("prep", "first_look", PrepSection(inputs, Acc))
FirstLook == Section("first_look", "tuckaway", FirstLookSection(inputs, Acc))
Tuckaway == Section("tuckaway", "ceremony", TuckawaySection(inputs, Acc))
Ceremony == Section("ceremony", "post_ceremony", CeremonySection(inputs, Acc))
PostCeremony ==
    Section("post_ceremony", "travel", PostCeremonySection(inputs, Acc))
TravelToReception ==
    Section("travel", "cocktail", TravelToReceptionSection(inputs, Acc))
CocktailHour ==
    Section("cocktail", "reception_start", CocktailHourSection(inputs, Acc))
ReceptionStart ==
    Section("reception_start", "grand_entrance",
            ReceptionStartSection(inputs, Acc))
GrandEntrance ==
    Section("grand_entrance", "first_dance", GrandEntranceSection(inputs, Acc))
FirstDance ==
    Section("first_dance", "parent_dances", FirstDanceSection(inputs, Acc))
ParentDances ==
    Section("parent_dances", "toasts", ParentDancesSection(inputs, Acc))
Toasts == Section("toasts", "dinner", ToastsSection(inputs, Acc))
Dinner == Section("dinner", "dancefloor", DinnerSection(inputs, Acc))
Dancefloor ==
    Section("dancefloor", "cake_bouquet_garter",
            DancefloorSection(inputs, Acc))
CakeBouquetGarter ==
    Section("cake_bouquet_garter", "golden_hour",
            CakeBouquetGarterSection(inputs, Acc))
GoldenHour ==
    Section("golden_hour", "coverage_check", GoldenHourSection(inputs, Acc))
CoverageCheck ==
    Section("coverage_check", "coverage_end",
            CoverageCheckSection(inputs, Acc))
CoverageEnd == Section("coverage_end", "done", CoverageEndSection(inputs, Acc))

Build ==
    \/ Arrival
    \/ Prep
    \/ FirstLook
    \/ Tuckaway
    \/ Ceremony
    \/ PostCeremony
    \/ TravelToReception
    \/ CocktailHour
    \/ ReceptionStart
    \/ GrandEntrance
    \/ FirstDance
    \/ ParentDances
    \/ Toasts
    \/ Dinner
    \/ Dancefloor
    \/ CakeBouquetGarter
    \/ GoldenHour
    \/ CoverageCheck
    \/ CoverageEnd

Next == Build

Spec == Init /\ [][Next]_vars

-----------------------------------------------------------------------------
(* Repeated calls: when a call has returned, build_timeline is called      *)
(* again (by the form, on the next submit) with inputs of its choice.      *)

RunInputs ==
    { [DefaultInputs EXCEPT !.first_look = fl, !.buffer_minutes = b] :
        fl \in BOOLEAN, b \in BufferChoices }

\* Mutant: the warning list outlives the call (a module-level list)
CallAgain_KeepWarnings ==
    /\ pc = "done"
    /\ calls < MaxCalls
    /\ history' = Append(history, [inputs |-> inputs, blocks |-> blocks,
                                   warnings |-> warnings])
    /\ calls' = calls + 1
    /\ \E inp \in RunInputs :
          /\ inputs' = inp
          /\ t' = inp.coverage_start
    /\ pc' = "arrival"
    /\ blocks' = <<>>
    /\ dancefloor_start' = None
    /\ dancefloor_end' = None
    /\ UNCHANGED <<warnings, ovArgs, ovResult, analytics>>

\* The call returns (blocks, warnings) and the next call starts: its locals
\* are fresh
CallAgain ==
    /\ pc = "done"
    /\ calls < MaxCalls
    /\ history' = Append(history, [inputs |-> inputs, blocks |-> blocks,
                                   warnings |-> warnings])
    /\ calls' = calls + 1
    /\ \E inp \in RunInputs :
          /\ inputs' = inp
          /\ t' = inp.coverage_start
    /\ pc' = "arrival"
    /\ blocks' = <<>>
    /\ warnings' = <<>>
    /\ dancefloor_start' = None
    /\ dancefloor_end' = None
    /\ UNCHANGED <<ovArgs, ovResult, analytics>>

InitRuns ==
    /\ \E inp \in RunInputs : Enter(inp)
    /\ calls = 1
    /\ history = <<>>
    /\ NoOverlapCall
    /\ NoAnalyticsCall

NextRuns ==
    \/ Build
    \/ CallAgain

SpecRuns == InitRuns /\ [][NextRuns]_vars

-----------------------------------------------------------------------------
(* Direct calls of _overlap_minutes on instants of a minute grid *)

Grid == {add_minutes(0, m) : m \in 0..MaxGrid}

InitOverlap ==
    /\ Enter(DefaultInputs)
    /\ calls = 0
    /\ history = <<>>
    /\ ovArgs \in Grid \X Grid \X Grid \X Grid
    /\ ovResult = None
    /\ NoAnalyticsCall

OverlapCall ==
    /\ ovResult = None
    /\ ovResult' = _overlap_minutes(ovArgs[1], ovArgs[2], ovArgs[3], ovArgs[4])
    /\ UNCHANGED <<inputs, pc, t, blocks, warnings, dancefloor_start,
                   dancefloor_end, calls, history, ovArgs, analytics>>

NextOverlap == OverlapCall

SpecOverlap == InitOverlap /\ [][NextOverlap]_vars

-----------------------------------------------------------------------------
(* Coverage analytics calls: when build_timeline has returned, the caller   *)
(* calls the three analytics functions on its blocks, in any order and any  *)
(* number of times.                                                         *)

\* every sequential reception event and the dancefloor coverage switched off
QuietReceptionEvents ==
    [DefaultReceptionEvents EXCEPT
        !.grand_entrance = FALSE, !.first_dance = FALSE, !.toasts = FALSE,
        !.dinner = FALSE, !.cake_cutting = FALSE,
        !.dancefloor_coverage = FALSE]

\* Runs whose latest block can be the cocktail hour
WindowInputs ==
    { [WithCoverageHours(DefaultInputs, ch) EXCEPT
          !.first_look = fl, !.buffer_minutes = b, !.reception_events = re] :
        fl \in BOOLEAN, b \in BufferChoices, ch \in {7, 8},
        re \in {DefaultReceptionEvents, QuietReceptionEvents} }

AnalyticsInputs == DancefloorInputs \cup WindowInputs

\* the top_n argument: the form passes 8
TopNChoices == {1, 3, 8}

AnalyticsCallable ==
    /\ pc = "done"
    /\ analytics.calls < MaxAnalyticsCalls

CoverageTotals ==
    /\ AnalyticsCallable
    /\ analytics' =
          [analytics EXCEPT
              !.calls = @ + 1, !.called = @ \cup {"coverage_totals"},
              !.totals = coverage_totals(blocks, inputs.coverage_start,
                                         inputs.coverage_end)]
    /\ UNCHANGED <<inputs, pc, t, blocks, warnings, dancefloor_start,
                   dancefloor_end, calls, history, ovArgs, ovResult>>

CoverageAllocationByKind ==
    /\ AnalyticsCallable
    /\ analytics' =
          [analytics EXCEPT
              !.calls = @ + 1,
              !.called = @ \cup {"coverage_allocation_by_kind"},
              !.by_kind = coverage_allocation_by_kind(
                              blocks, inputs.coverage_start,
                              inputs.coverage_end, analytics.tie)]
    /\ UNCHANGED <<inputs, pc, t, blocks, warnings, dancefloor_start,
                   dancefloor_end, calls, history, ovArgs, ovResult>>

\* Mutant: the function pops the sentinel off the caller's list
CoverageAllocationTopBlocks_PopsSentinel ==
    /\ AnalyticsCallable
    /\ \E n \in TopNChoices :
          analytics' =
              [analytics EXCEPT
                  !.calls = @ + 1,
                  !.called = @ \cup {"coverage_allocation_top_blocks"},
                  !.top_n = n,
                  !.top_blocks = coverage_allocation_top_blocks(
                                     blocks, inputs.coverage_start,
                                     inputs.coverage_end, n, analytics.tie)]
    /\ blocks' = SubSeq(blocks, 1, Len(blocks) - 1)
    /\ UNCHANGED <<inputs, pc, t, warnings, dancefloor_start,
                   dancefloor_end, calls, history, ovArgs, ovResult>>

CoverageAllocationTopBlocks ==
    /\ AnalyticsCallable
    /\ \E n \in TopNChoices :
          analytics' =
              [analytics EXCEPT
                  !.calls = @ + 1,
                  !.called = @ \cup {"coverage_allocation_top_blocks"},
                  !.top_n = n,
                  !.top_blocks = coverage_allocation_top_blocks(
                                     blocks, inputs.coverage_start,
                                     inputs.coverage_end, n, analytics.tie)]
    /\ UNCHANGED <<inputs, pc, t, blocks, warnings, dancefloor_start,
                   dancefloor_end, calls, history, ovArgs, ovResult>>

InitAnalytics ==
    /\ \E inp \in AnalyticsInputs : Enter(inp)
    /\ calls = 1
    /\ history = <<>>
    /\ NoOverlapCall
    /\ \E tie \in TiePolicies : analytics = [NoAnalytics EXCEPT !.tie = tie]

NextAnalytics ==
    \/ Build
    \/ CoverageTotals
    \/ CoverageAllocationByKind
    \/ CoverageAllocationTopBlocks

SpecAnalytics == InitAnalytics /\ [][NextAnalytics]_vars

-----------------------------------------------------------------------------
(* The same inputs with and without sunset_time: when the call with a      *)
(* sunset time has returned, the form is submitted again with the sunset   *)
(* field cleared and every other field unchanged.                          *)

SunsetInputs == {inp \in DancefloorInputs : inp.sunset_time # None}

CallWithoutSunset ==
    /\ pc = "done"
    /\ calls = 1
    /\ inputs.sunset_time # None
    /\ history' = Append(history, [inputs |-> inputs, blocks |-> blocks,
                                   warnings |-> warnings])
    /\ calls' = calls + 1
    /\ inputs' = [inputs EXCEPT !.sunset_time = None]
    /\ t' = inputs.coverage_start
    /\ pc' = "arrival"
    /\ blocks' = <<>>
    /\ warnings' = <<>>
    /\ dancefloor_start' = None
    /\ dancefloor_end' = None
    /\ UNCHANGED <<ovArgs, ovResult, analytics>>

InitSunset ==
    /\ \E inp \in SunsetInputs : Enter(inp)
    /\ calls = 1
    /\ history = <<>>
    /\ NoOverlapCall
    /\ NoAnalyticsCall

NextSunset ==
    \/ Build
    \/ CallWithoutSunset

SpecSunset == InitSunset /\ [][NextSunset]_vars

-----------------------------------------------------------------------------
(* Properties *)

Done == pc = "done"

BlockIndexes(name) == {i \in 1..Len(blocks) : blocks[i].name = name}

HasBlock(name) == BlockIndexes(name) # {}

WarningIndexes(text) == {i \in 1..Len(warnings) : warnings[i].text = text}

HasWarning(text) == WarningIndexes(text) # {}

PreCeremonyOverrunText ==
    "Pre-ceremony schedule runs N min past ceremony start"

PastCoverageText == "Timeline runs N min past coverage end"

PortraitNames ==
    {"Couple portraits", "Wedding party portraits", "Family portraits"}

\* The documented scenario: 12:00 PM, 8 h, ceremony 4:00 PM for 30 min, first
\* look, 30/30/30, travel 15, first look 15, couple 45, party 30, family 30
\* (flat), buffer 15; the fields the scenario leaves open are free
IsScenarioBut(inp, hours) ==
    /\ inp.coverage_start = Clock(12, 0)
    /\ inp.coverage_hours = hours
    /\ inp.ceremony_start = Clock(16, 0)
    /\ inp.ceremony_minutes = 30
    /\ inp.first_look
    /\ inp.flatlay_details_minutes = 30
    /\ inp.getting_dressed_minutes = 30
    /\ inp.individual_portraits_minutes = 30
    /\ inp.travel_gr_to_ceremony_minutes = 15
    /\ inp.first_look_minutes = 15
    /\ inp.couple_portraits_minutes = 45
    /\ inp.wedding_party_portraits_minutes = 30
    /\ inp.family_portraits_minutes = 30
    /\ inp.family_groupings = None
    /\ inp.buffer_minutes = 15

IsScenario(inp) == IsScenarioBut(inp, 8)

IsOverrunScenario(inp) == IsScenarioBut(inp, 2)

\* C1 as stated: with a first look the three portrait blocks end at or before
\* the start of the Ceremony block, without one they start at or after its end.
C1_FirstLookOrdering ==
    Done =>
        \A c \in BlockIndexes("Ceremony") :
            \A i \in 1..Len(blocks) :
                blocks[i].name \in PortraitNames =>
                    IF inputs.first_look
                    THEN blocks[i].end <= blocks[c].start
                    ELSE blocks[i].start >= blocks[c].end

\* C1 amended: each of the three portrait blocks is emitted exactly once; with
\* a first look it is emitted before the Ceremony block, and ends at or before
\* the start of the Ceremony block whenever the run does not warn that the
\* pre-ceremony schedule runs past ceremony start; without a first look it is
\* emitted after the Ceremony block and starts at or after its end.
C1_FirstLookOrderingUnlessOverrun ==
    Done =>
        /\ Cardinality(BlockIndexes("Ceremony")) = 1
        /\ \A n \in PortraitNames : Cardinality(BlockIndexes(n)) = 1
        /\ \A c \in BlockIndexes("Ceremony") :
              \A i \in 1..Len(blocks) :
                  blocks[i].name \in PortraitNames =>
                      IF inputs.first_look
                      THEN /\ i < c
                           /\ ~HasWarning(PreCeremonyOverrunText)
                                 => blocks[i].end <= blocks[c].start
                      ELSE /\ i > c
                           /\ blocks[i].start >= blocks[c].end

\* A first-look run without pre-ceremony overrun: the family portraits end
\* before the ceremony starts
C1_Witness ==
    /\ Done
    /\ inputs.first_look
    /\ ~HasWarning(PreCeremonyOverrunText)
    /\ \E i \in BlockIndexes("Family portraits") :
          /\ blocks[i].end > blocks[i].start
          /\ blocks[i].end <= inputs.ceremony_start

\* C2 as stated: the documented scenario emits a 'Flexible pre-ceremony
\* coverage' block and no warning that the pre-ceremony schedule runs past
\* ceremony start.
C2_ScenarioHasFiller ==
    (Done /\ IsScenario(inputs)) =>
        /\ HasBlock("Flexible pre-ceremony coverage")
        /\ ~HasWarning(PreCeremonyOverrunText)

\* C2 amended: the documented scenario emits no 'Flexible pre-ceremony
\* coverage' block and exactly one warning that the pre-ceremony schedule runs
\* past ceremony start, by at least 105 minutes, and by exactly 105 minutes
\* when flat lay starts at coverage start and no divorced-parents, strained-
\* relationships or finicky-members flag extends the family buffer (the
\* pre-ceremony blocks and their eight 15-minute buffers sum to 345 minutes).
C2_ScenarioOverruns ==
    (Done /\ IsScenario(inputs)) =>
        /\ ~HasBlock("Flexible pre-ceremony coverage")
        /\ Cardinality(WarningIndexes(PreCeremonyOverrunText)) = 1
        /\ \A i \in WarningIndexes(PreCeremonyOverrunText) :
              /\ warnings[i].mins >= 105
              /\ (/\ \E f \in BlockIndexes("Flat lay & details") :
                        blocks[f].start = inputs.coverage_start
                  /\ ~inputs.family_dynamics.divorced_parents
                  /\ ~inputs.family_dynamics.strained_relationships
                  /\ ~inputs.family_dynamics.finicky_family_members)
                    => warnings[i].mins = 105

\* The documented scenario has run and warned of a 105-minute overrun
C2_Witness ==
    /\ Done
    /\ IsScenario(inputs)
    /\ \E i \in WarningIndexes(PreCeremonyOverrunText) :
          warnings[i].mins = 105

\* The latest end over the blocks emitted before the sentinel
LatestEndBeforeSentinel ==
    CHOOSE e \in {blocks[i].end : i \in 1..(Len(blocks) - 1)} :
        \A i \in 1..(Len(blocks) - 1) : blocks[i].end <= e

\* C3: a 'past coverage end' warning is appended if and only if the latest
\* end over the blocks emitted before the sentinel is strictly later than
\* coverage_end, it reports that latest end minus coverage_end in minutes, and
\* the documented scenario with coverage_hours = 2 yields such a warning.
C3_FinalCoverageCheck ==
    Done =>
        /\ HasWarning(PastCoverageText)
              <=> LatestEndBeforeSentinel > inputs.coverage_end
        /\ \A i \in WarningIndexes(PastCoverageText) :
              /\ warnings[i].mins * SecondsPerMinute
                    = LatestEndBeforeSentinel - inputs.coverage_end
              /\ i = Len(warnings)
        /\ IsOverrunScenario(inputs) => HasWarning(PastCoverageText)

\* The 2-hour scenario has run and warned; the latest end is not the cursor
C3_Witness ==
    /\ Done
    /\ IsOverrunScenario(inputs)
    /\ HasWarning(PastCoverageText)
    /\ LatestEndBeforeSentinel > inputs.coverage_end

\* C4: the last block is 'Coverage ends', with start = end = coverage_end and
\* kind 'coverage', and no other block has kind 'coverage'.
C4_Sentinel ==
    Done =>
        /\ Len(blocks) >= 1
        /\ blocks[Len(blocks)].name = "Coverage ends"
        /\ blocks[Len(blocks)].start = inputs.coverage_end
        /\ blocks[Len(blocks)].end = inputs.coverage_end
        /\ blocks[Len(blocks)].kind = "coverage"
        /\ \A i \in 1..(Len(blocks) - 1) :
              blocks[i].kind # "coverage" /\ blocks[i].name # "Coverage ends"

\* A run that overran its coverage has returned: the sentinel is last although
\* blocks before it end later
C4_Witness ==
    /\ Done
    /\ Len(blocks) > 1
    /\ blocks[Len(blocks)].kind = "coverage"
    /\ \E i \in 1..(Len(blocks) - 1) :
          blocks[i].end > blocks[Len(blocks)].start

\* C5: every block has end >= start and a non-negative duration_minutes, in
\* every run (the inputs' durations are non-negative integers).
C5_NonNegativeDurations ==
    \A i \in 1..Len(blocks) :
        /\ blocks[i].end >= blocks[i].start
        /\ duration_minutes(blocks[i]) >= 0

\* A run with a zero-length dancefloor block and a cake cutting embedded in
\* it (clamped to end at dancefloor_end) has returned
C5_Witness ==
    /\ Done
    /\ \E d \in BlockIndexes("Dancefloor coverage") :
          /\ duration_minutes(blocks[d]) = 0
          /\ \E c \in BlockIndexes("Cake cutting") :
                /\ blocks[c].start < blocks[d].start
                /\ blocks[c].end = blocks[d].end
                /\ duration_minutes(blocks[c]) > 0

\* Two blocks of positive duration share a minute
Overlap(b1, b2) ==
    /\ b1.end > b1.start
    /\ b2.end > b2.start
    /\ b1.start < b2.end
    /\ b2.start < b1.end

NoTwoBlocksOverlap ==
    \A i \in 1..Len(blocks) : \A j \in 1..Len(blocks) :
        i < j => ~Overlap(blocks[i], blocks[j])

EmbeddedNames == {"Cake cutting", "Bouquet toss", "Garter toss"}

\* The warnings that report a block placed before the running cursor
AnchorConflictTexts ==
    {PreCeremonyOverrunText,
     "Cocktail hour start is earlier than the current timeline position",
     "time is earlier than current timeline position",
     "Dinner start is earlier than current timeline position"}

\* A run whose blocks all follow the cursor: no sunset_time, no cake/bouquet/
\* garter block embedded in a dancefloor block, no anchor-conflict warning
FollowsCursor ==
    /\ inputs.sunset_time = None
    /\ ~(inputs.reception_events.dancefloor_coverage
         /\ \E n \in EmbeddedNames : HasBlock(n))
    /\ \A i \in 1..Len(warnings) : warnings[i].text \notin AnchorConflictTexts

\* C6 as stated: the returned blocks are pairwise non-overlapping, for every
\* input.
C6_NonOverlap == Done => NoTwoBlocksOverlap

\* C6 amended: the returned blocks are pairwise non-overlapping in every run
\* that has no sunset_time, embeds no cake/bouquet/garter block in a
\* dancefloor block, and emits none of the warnings 'Pre-ceremony schedule
\* runs N min past ceremony start', 'Cocktail hour start ... is earlier',
\* '<event> time ... is earlier', 'Dinner start ... is earlier'.
C6_NonOverlapWhenFollowsCursor ==
    (Done /\ FollowsCursor) => NoTwoBlocksOverlap

\* A run anchored on reception_start and on a grand-entrance hard time that
\* still follows the cursor has returned
C6_Witness ==
    /\ Done
    /\ FollowsCursor
    /\ inputs.reception_start # None
    /\ inputs.reception_events.grand_entrance_time # None
    /\ NoTwoBlocksOverlap

BlockKinds == {"travel", "buffer", "event", "photo", "coverage"}

MandatoryNames ==
    {"Flat lay & details", "Getting dressed", "Individual portraits",
     "Ceremony", "Cocktail hour", "Coverage ends"}

C9_Determinism ==
    Done =>
        \A k \in 1..Len(history) :
            history[k].inputs = inputs =>
                /\ history[k].blocks = blocks
                /\ history[k].warnings = warnings

\* The third call has returned; it has the inputs of the first call and the
\* second call had other inputs
C9_Witness ==
    /\ Done
    /\ Len(history) = 2
    /\ history[1].inputs = inputs
    /\ history[2].inputs # inputs
    /\ history[1].blocks = blocks
    /\ Len(warnings) > 0

\* C10: _overlap_minutes returns max(0, min(a_end, w_end) - max(a_start,
\* w_start)) in minutes: the full duration of a block inside the window, 0 for
\* a block outside it or touching a boundary, the clipped portion of a block
\* straddling one boundary.
C10_OverlapCorrect ==
    ovResult # None =>
        LET a_start == ovArgs[1]
            a_end == ovArgs[2]
            w_start == ovArgs[3]
            w_end == ovArgs[4]
            hi == IF a_end <= w_end THEN a_end ELSE w_end
            lo == IF a_start >= w_start THEN a_start ELSE w_start
        IN  /\ ovResult * SecondsPerMinute = (IF hi - lo > 0 THEN hi - lo ELSE 0)
            /\ (a_start <= a_end /\ w_start <= w_end) =>
                  /\ (w_start <= a_start /\ a_end <= w_end)
                        => ovResult * SecondsPerMinute = a_end - a_start
                  /\ (a_end <= w_start \/ a_start >= w_end) => ovResult = 0
                  /\ (a_start < w_start /\ w_start < a_end /\ a_end <= w_end)
                        => ovResult * SecondsPerMinute = a_end - w_start
                  /\ (w_start <= a_start /\ a_start < w_end /\ w_end < a_end)
                        => ovResult * SecondsPerMinute = w_end - a_start

\* A block straddling the end of the window has been measured
C10_Witness ==
    /\ ovResult # None
    /\ ovArgs[3] <= ovArgs[1]
    /\ ovArgs[1] < ovArgs[4]
    /\ ovArgs[4] < ovArgs[2]
    /\ ovResult > 0

-----------------------------------------------------------------------------
(* Properties of the coverage analytics *)

Called(f) == f \in analytics.called

\* the minutes of a kind in the table coverage_allocation_by_kind returned
\* (0 when the kind has no row)
KindMinutes(k) ==
    LET rows == {i \in 1..Len(analytics.by_kind) : analytics.by_kind[i].Kind = k}
    IN  IF rows = {} THEN 0
        ELSE analytics.by_kind[CHOOSE i \in rows : TRUE].TimeUsed.min

\* the whole minutes [m, m+1) of a block, as minute numbers
BlockMinutes(b) ==
    {m \in ((b.start + SecondsPerMinute - 1) \div SecondsPerMinute)
             ..((b.end \div SecondsPerMinute) - 1) :
        /\ b.start <= m * SecondsPerMinute
        /\ (m + 1) * SecondsPerMinute <= b.end}

InCoverage(m) ==
    /\ inputs.coverage_start <= m * SecondsPerMinute
    /\ (m + 1) * SecondsPerMinute <= inputs.coverage_end

InDancefloor(m) ==
    \E d \in BlockIndexes("Dancefloor coverage") : m \in BlockMinutes(blocks[d])

\* the in-coverage minutes of a block
CoverageMinutes(b) == Cardinality({m \in BlockMinutes(b) : InCoverage(m)})

\* the in-coverage minutes of a block that lie outside every dancefloor block
MinutesOutsideDancefloor(b) ==
    Cardinality({m \in BlockMinutes(b) : InCoverage(m) /\ ~InDancefloor(m)})

Within(b, d) == d.start <= b.start /\ b.end <= d.end

InsideCoverage(b) ==
    inputs.coverage_start <= b.start /\ b.end <= inputs.coverage_end

\* C11: in the table of coverage_allocation_by_kind the 'event' total is the
\* sum, over the blocks of kind event, of the in-coverage minutes of the block,
\* counted outside every 'Dancefloor coverage' block for a cake cutting, a
\* bouquet toss or a garter toss; so a cake cutting embedded in a dancefloor
\* block, both in coverage, adds nothing and the two blocks account together
\* for the minutes of the dancefloor block.
C11_NoDoubleCountingByKind ==
    Called("coverage_allocation_by_kind") =>
        /\ KindMinutes("event") =
              SumSeq([i \in 1..Len(blocks) |->
                  IF blocks[i].kind # "event" THEN 0
                  ELSE IF blocks[i].name \in EmbeddedNames
                       THEN MinutesOutsideDancefloor(blocks[i])
                       ELSE CoverageMinutes(blocks[i])])
        /\ SumSeq([k \in 1..Len(KindsSorted) |-> KindMinutes(KindsSorted[k])])
              = SumSeq([i \in 1..Len(blocks) |->
                    IF blocks[i].kind \in SkippedKinds THEN 0
                    ELSE IF blocks[i].name \notin EmbeddedNames
                         THEN CoverageMinutes(blocks[i])
                         ELSE IF \E d \in BlockIndexes("Dancefloor coverage") :
                                     Within(blocks[i], blocks[d])
                              THEN 0
                              ELSE MinutesOutsideDancefloor(blocks[i])])

\* The table was computed for a run with a 90-minute dancefloor block in
\* coverage and a cake cutting at minutes 15..25 of it
C11_Witness ==
    /\ Called("coverage_allocation_by_kind")
    /\ \E d \in BlockIndexes("Dancefloor coverage") :
          /\ duration_minutes(blocks[d]) = 90
          /\ InsideCoverage(blocks[d])
          /\ \E c \in BlockIndexes("Cake cutting") :
                /\ blocks[c].start = add_minutes(blocks[d].start, 15)
                /\ blocks[c].end = add_minutes(blocks[d].start, 25)
                /\ blocks[c].kind = "event"
    /\ KindMinutes("photo") >= 90

C13_OverageMatchesWarning ==
    Called("coverage_totals") =>
        /\ analytics.totals.overage_minutes * SecondsPerMinute =
              Max2(0, LatestEndBeforeSentinel - inputs.coverage_end)
        /\ analytics.totals.overage_minutes > 0
              <=> HasWarning(PastCoverageText)
        /\ \A i \in WarningIndexes(PastCoverageText) :
              warnings[i].mins = analytics.totals.overage_minutes

\* the minutes a block accounts for in the allocation tables: its in-coverage
\* minutes, outside the dancefloor blocks for an embedded event
AllocatedMinutes(b) ==
    IF b.kind = "event" /\ b.name \in EmbeddedNames
    THEN MinutesOutsideDancefloor(b)
    ELSE CoverageMinutes(b)

\* the blocks a row of the top-blocks table can stand for, alloc[i] being the
\* allocated minutes of block i
RowBlocks(r, alloc) ==
    {i \in 1..Len(blocks) :
        /\ blocks[i].name = r.Block
        /\ blocks[i].kind = r.Kind
        /\ blocks[i].location = r.Location
        /\ alloc[i] = r.TimeUsed.min
        /\ safe_fmt_time(blocks[i].start) = r.Start
        /\ safe_fmt_time(blocks[i].end) = r.End}

\* The table is the top_n selection among the blocks of `eligible`, in
\* chronological order
IsTopSelection(eligible) ==
    Let([i \in 1..Len(blocks) |-> AllocatedMinutes(blocks[i])], LAMBDA alloc :
    Let([p \in 1..Len(analytics.top_blocks) |->
            RowBlocks(analytics.top_blocks[p], alloc)], LAMBDA shown :
        LET top == analytics.top_blocks
            positive == {i \in eligible : alloc[i] > 0}
        IN  /\ Len(top) <= analytics.top_n
            /\ Len(top) = Min2(analytics.top_n, Cardinality(positive))
            /\ \A p \in 1..Len(top) : shown[p] \cap positive # {}
            /\ \A i \in positive :
                  (\A p \in 1..Len(top) : i \notin shown[p]) =>
                      \A p \in 1..Len(top) : alloc[i] <= top[p].TimeUsed.min
            /\ \A p \in 1..Len(top) : \A q \in 1..Len(top) :
                  p < q => \E i \in shown[p] : \E j \in shown[q] :
                              blocks[i].start <= blocks[j].start))

\* C14 as stated: the table has at most top_n rows, which are the blocks with
\* the largest positive in-coverage minutes among all the blocks but the
\* sentinel (no omitted block has more minutes than a row), ordered by
\* ascending start.
C14_TopBlocksOfAll ==
    Called("coverage_allocation_top_blocks") =>
        IsTopSelection({i \in 1..Len(blocks) : blocks[i].name # "Coverage ends"})

\* C14 amended: the same, among the blocks that are neither the sentinel nor
\* the cocktail hour of kind 'window'.
C14_TopBlocksOfCounted ==
    Called("coverage_allocation_top_blocks") =>
        IsTopSelection({i \in 1..Len(blocks) :
                           blocks[i].kind \notin SkippedKinds})

\* A table of 3 rows was computed from more than 3 blocks with minutes in
\* coverage; its rows are not in ranking order
C14_Witness ==
    /\ Called("coverage_allocation_top_blocks")
    /\ analytics.top_n = 3
    /\ Len(analytics.top_blocks) = 3
    /\ Cardinality({i \in 1..Len(blocks) :
                       /\ blocks[i].kind \notin SkippedKinds
                       /\ AllocatedMinutes(blocks[i]) > 0}) > 3
    /\ analytics.top_blocks[1].TimeUsed.min < analytics.top_blocks[2].TimeUsed.min

\* C15: a call of an analytics function leaves the block list as it was, and
\* a function called again on it returns what it returned before, whichever
\* calls were made in between (coverage_allocation_top_blocks: for the same
\* top_n).
C15_AnalyticsReadOnly ==
    [][analytics' # analytics =>
          /\ blocks' = blocks
          /\ Called("coverage_totals") => analytics'.totals = analytics.totals
          /\ Called("coverage_allocation_by_kind")
                => analytics'.by_kind = analytics.by_kind
          /\ (/\ Called("coverage_allocation_top_blocks")
              /\ analytics'.top_n = analytics.top_n)
                => analytics'.top_blocks = analytics.top_blocks]_vars

\* coverage_allocation_top_blocks was called twice on the blocks of a run;
\* the list still ends with the sentinel
C15_Witness ==
    /\ analytics.calls = 2
    /\ analytics.called = {"coverage_allocation_top_blocks"}
    /\ Len(analytics.top_blocks) > 0
    /\ blocks[Len(blocks)].name = "Coverage ends"

-----------------------------------------------------------------------------
(* Properties of the reception and ceremony phases *)

\* The enabled sequential events of a section that have a hard time: the
\* name of the block, the hard time and the fixed text of the warning
HardTimedEvents(p) ==
    LET re == inputs.reception_events
        Event(at, name, enabled, when, text) ==
            IF p = at /\ enabled /\ when # None
            THEN {[name |-> name, when |-> when, text |-> text]}
            ELSE {}
        EventText == "time is earlier than current timeline position"
    IN  Event("grand_entrance", "Grand entrance", re.grand_entrance,
              re.grand_entrance_time, EventText)
        \cup Event("first_dance", "First dance", re.first_dance,
                   re.first_dance_time, EventText)
        \cup Event("parent_dances", "Parent dances",
                   re.father_daughter_dance \/ re.mother_son_dance,
                   re.parent_dances_time, EventText)
        \cup Event("toasts", "Toasts", re.toasts, re.toasts_time, EventText)
        \cup Event("dinner", "Dinner", re.dinner, re.dinner_start_time,
                   "Dinner start is earlier than current timeline position")
        \cup Event("cake_bouquet_garter", "Cake cutting",
                   re.cake_cutting /\ ~re.dancefloor_coverage,
                   re.cake_cutting_time, EventText)
        \cup Event("cake_bouquet_garter", "Bouquet toss",
                   re.bouquet_toss /\ ~re.dancefloor_coverage,
                   re.bouquet_toss_time, EventText)
        \cup Event("cake_bouquet_garter", "Garter toss",
                   re.garter_toss /\ ~re.dancefloor_coverage,
                   re.garter_toss_time, EventText)

\* C16: in the step of its section, every enabled sequential reception event
\* with a hard time gets exactly one block, which starts at the hard time
\* whatever the cursor was, and the step appends the event's 'earlier than
\* current timeline position' warning if and only if the hard time is
\* strictly earlier than the cursor at that point (the cursor before the
\* section, or the end of the block the section appended just before);
\* dinner included.
C16_AnchorsAlwaysWin ==
    [][\A ev \in HardTimedEvents(pc) :
          LET new == {i \in (Len(blocks) + 1)..Len(blocks') :
                         blocks'[i].name = ev.name}
              warned == \E w \in (Len(warnings) + 1)..Len(warnings') :
                           /\ warnings'[w].text = ev.text
                           /\ warnings'[w].name \in {"", ev.name}
          IN  /\ Cardinality(new) = 1
              /\ \A i \in new :
                    /\ blocks'[i].start = ev.when
                    /\ warned <=>
                          ev.when < (IF i = Len(blocks) + 1 THEN t
                                     ELSE blocks'[i - 1].end)]_vars

\* A run has returned in which the toasts were moved back to their hard time
\* with a warning and the garter toss was moved forward to its hard time
\* without one
C16_Witness ==
    /\ Done
    /\ inputs.reception_events.toasts_time # None
    /\ \E i \in BlockIndexes("Toasts") :
          /\ blocks[i].start = inputs.reception_events.toasts_time
          /\ blocks[i - 1].end > blocks[i].start
    /\ \E w \in WarningIndexes("time is earlier than current timeline position") :
          warnings[w].name = "Toasts"
    /\ ~inputs.reception_events.dancefloor_coverage
    /\ \E i \in BlockIndexes("Garter toss") :
          /\ blocks[i].start = inputs.reception_events.garter_toss_time
          /\ blocks[i - 1].end < blocks[i].start
    /\ ~\E w \in WarningIndexes("time is earlier than current timeline position") :
          warnings[w].name = "Garter toss"

CocktailText ==
    "Cocktail hour start is earlier than the current timeline position"

\* C17: the cocktail-hour section appends exactly one block named 'Cocktail
\* hour', of cocktail_hour_minutes, and it is the only one of the run; with a
\* reception_start the block ends exactly at reception_start and the section
\* warns if and only if the block starts before the cursor left by the travel
\* to the reception; without one the block starts at that cursor.
C17_CocktailHour ==
    [][/\ pc = "cocktail" =>
            LET new == {i \in (Len(blocks) + 1)..Len(blocks') :
                           blocks'[i].name = "Cocktail hour"}
                warned == \E w \in (Len(warnings) + 1)..Len(warnings') :
                             warnings'[w].text = CocktailText
            IN  /\ Cardinality(new) = 1
                /\ \A i \in new :
                      /\ blocks'[i].end =
                            add_minutes(blocks'[i].start,
                                        inputs.cocktail_hour_minutes)
                      /\ inputs.reception_start # None =>
                            /\ blocks'[i].end = inputs.reception_start
                            /\ warned <=> blocks'[i].start < t
                      /\ inputs.reception_start = None =>
                            /\ blocks'[i].start = t
                            /\ ~warned
       /\ pc' = "done" =>
            Cardinality({i \in 1..Len(blocks') :
                            blocks'[i].name = "Cocktail hour"}) = 1]_vars

\* A run has returned whose cocktail hour ends at reception_start and starts
\* before the block emitted just before it, with the warning
C17_Witness ==
    /\ Done
    /\ inputs.reception_start # None
    /\ \E i \in BlockIndexes("Cocktail hour") :
          /\ blocks[i].end = inputs.reception_start
          /\ blocks[i].start < blocks[i - 1].end
    /\ HasWarning(CocktailText)

\* C18: when dancefloor coverage is enabled, every 'Cake cutting', 'Bouquet
\* toss' and 'Garter toss' block of the run lies inside the dancefloor window:
\* dancefloor_start <= start and end <= dancefloor_end.
C18_EmbeddedStayInWindow ==
    (pc \in {"golden_hour", "coverage_check", "coverage_end", "done"}
     /\ inputs.reception_events.dancefloor_coverage) =>
        \A n \in EmbeddedNames : \A i \in BlockIndexes(n) :
            /\ dancefloor_start <= blocks[i].start
            /\ blocks[i].end <= dancefloor_end

\* C19: the ceremony section appends exactly one block named 'Ceremony',
\* which starts at ceremony_start and lasts ceremony_minutes, whether the
\* cursor is past ceremony_start, before it or on it; it is the only one of
\* the run.
C19_CeremonyOnTime ==
    [][/\ pc = "ceremony" =>
            LET new == {i \in (Len(blocks) + 1)..Len(blocks') :
                           blocks'[i].name = "Ceremony"}
            IN  /\ new = {Len(blocks) + 1}
                /\ \A i \in new :
                      /\ blocks'[i].start = inputs.ceremony_start
                      /\ blocks'[i].end = add_minutes(inputs.ceremony_start,
                                              inputs.ceremony_minutes)
       /\ pc' = "done" =>
            Cardinality({i \in 1..Len(blocks') :
                            blocks'[i].name = "Ceremony"}) = 1]_vars

\* A run has returned whose pre-ceremony blocks ran past ceremony_start and
\* whose ceremony block starts at ceremony_start
C19_Witness ==
    /\ Done
    /\ HasWarning(PreCeremonyOverrunText)
    /\ \E i \in BlockIndexes("Ceremony") :
          /\ blocks[i].start = inputs.ceremony_start
          /\ blocks[i - 1].end > inputs.ceremony_start

\* C20: when the cursor is strictly before ceremony_start at the tuckaway
\* section, the section appends a 'Tuckaway before ceremony' block if and
\* only if min(tuckaway_minutes, slack) is positive, of that many minutes,
\* then a 'Flexible pre-ceremony coverage' block if and only if the slack
\* left is at least 8 minutes, spanning that slack up to ceremony_start, and
\* nothing else; no block it appends ends after ceremony_start and the cursor
\* stops less than 8 minutes before ceremony_start.
C20_TuckawayAndFiller ==
    [][(pc = "tuckaway" /\ t < inputs.ceremony_start) =>
          LET added == (Len(blocks) + 1)..Len(blocks')
              tuck == {i \in added :
                          blocks'[i].name = "Tuckaway before ceremony"}
              filler == {i \in added :
                            blocks'[i].name = "Flexible pre-ceremony coverage"}
              slack == minutes_between(t, inputs.ceremony_start)
              tuck_mins == Min2(inputs.tuckaway_minutes, slack)
              after_tuck == add_minutes(t, Max2(tuck_mins, 0))
              left == minutes_between(after_tuck, inputs.ceremony_start)
          IN  /\ added = tuck \cup filler
              /\ Cardinality(tuck) = (IF tuck_mins > 0 THEN 1 ELSE 0)
              /\ \A i \in tuck :
                    /\ blocks'[i].start = t
                    /\ blocks'[i].end = add_minutes(t, tuck_mins)
              /\ Cardinality(filler) = (IF left >= 8 THEN 1 ELSE 0)
              /\ \A i \in filler :
                    /\ blocks'[i].start = after_tuck
                    /\ blocks'[i].end = inputs.ceremony_start
              /\ \A i \in added : blocks'[i].end <= inputs.ceremony_start
              /\ t' <= inputs.ceremony_start
              /\ minutes_between(t', inputs.ceremony_start) < 8]_vars

\* A run has returned whose tuckaway block was cut to the slack and ends at
\* ceremony_start, with no filler block
C20_Witness ==
    /\ Done
    /\ \E i \in BlockIndexes("Tuckaway before ceremony") :
          /\ duration_minutes(blocks[i]) > 0
          /\ duration_minutes(blocks[i]) < inputs.tuckaway_minutes
          /\ blocks[i].end = inputs.ceremony_start
    /\ ~HasBlock("Flexible pre-ceremony coverage")

NoTuckawayTimeText == "No time available before the ceremony for tuckaway"

\* the warnings a step appends
AddedWarnings == SubSeq(warnings', Len(warnings) + 1, Len(warnings'))

\* the blocks a step appends
AddedBlocks == SubSeq(blocks', Len(blocks) + 1, Len(blocks'))

\* C21: the tuckaway section appends the 'No time available before the
\* ceremony for tuckaway' warning if and only if the cursor it is entered with
\* is at or after ceremony_start and tuckaway_minutes > 0, and then appends no
\* tuckaway block; it appends the 'Pre-ceremony schedule runs N min past
\* ceremony start' warning if and only if that cursor is strictly after
\* ceremony_start, with N the minutes from ceremony_start to the cursor; it
\* appends each at most once and no other section appends either.
C21_PreCeremonyWarnings ==
    [][LET no_time == {i \in DOMAIN AddedWarnings :
                          AddedWarnings[i].text = NoTuckawayTimeText}
           overrun == {i \in DOMAIN AddedWarnings :
                          AddedWarnings[i].text = PreCeremonyOverrunText}
       IN  IF pc = "tuckaway"
           THEN /\ Cardinality(no_time) =
                      (IF t >= inputs.ceremony_start
                          /\ inputs.tuckaway_minutes > 0 THEN 1 ELSE 0)
                /\ no_time # {} =>
                      \A i \in DOMAIN AddedBlocks :
                          AddedBlocks[i].name # "Tuckaway before ceremony"
                /\ Cardinality(overrun) =
                      (IF t > inputs.ceremony_start THEN 1 ELSE 0)
                /\ \A i \in overrun :
                      AddedWarnings[i].mins =
                          minutes_between(inputs.ceremony_start, t)
                /\ Len(AddedWarnings) = Cardinality(no_time \cup overrun)
           ELSE no_time = {} /\ overrun = {}]_vars

\* A run has returned whose pre-ceremony cursor stopped exactly on
\* ceremony_start with a tuckaway requested: the tuckaway warning without the
\* overrun warning
C21_Witness ==
    /\ Done
    /\ inputs.tuckaway_minutes > 0
    /\ HasWarning(NoTuckawayTimeText)
    /\ ~HasWarning(PreCeremonyOverrunText)
    /\ ~HasBlock("Tuckaway before ceremony")

LateToReceptionText == "Arrives N min after reception start time you entered"

ReceptionDetailsName == "Reception details (before guests enter)"

\* C22: when reception_start is supplied, the reception-start section appends
\* one zero-duration 'Reception start' block at reception_start; entered with
\* a cursor later than reception_start it appends the lateness warning with
\* the minutes between them; entered with a cursor at least 10 minutes
\* earlier it appends a 'Reception details' block from the cursor to
\* reception_start; and it leaves the cursor on reception_start.
C22_ReceptionStartAnchor ==
    [][(pc = "reception_start" /\ inputs.reception_start # None) =>
          LET rs == inputs.reception_start
              marker == {i \in DOMAIN AddedBlocks :
                            AddedBlocks[i].name = "Reception start"}
              late == {i \in DOMAIN AddedWarnings :
                          AddedWarnings[i].text = LateToReceptionText}
              details == {i \in DOMAIN AddedBlocks :
                             AddedBlocks[i].name = ReceptionDetailsName}
          IN  /\ Cardinality(marker) = 1
              /\ \A i \in marker :
                    AddedBlocks[i].start = rs /\ AddedBlocks[i].end = rs
              /\ Cardinality(late) = (IF t > rs THEN 1 ELSE 0)
              /\ \A i \in late :
                    AddedWarnings[i].mins = minutes_between(rs, t)
              /\ Cardinality(details) =
                    (IF t < rs /\ minutes_between(t, rs) >= 10 THEN 1 ELSE 0)
              /\ \A i \in details :
                    AddedBlocks[i].start = t /\ AddedBlocks[i].end = rs
              /\ t' = rs]_vars

NoFirstLookText == "No first look: estimated post-ceremony portraits"

ProtectCocktailText ==
    "Protect cocktail hour is enabled but there is no first look"

\* family minutes + wedding-party minutes + couple minutes, plus the
\* receiving-line minutes when the receiving line is on
EstimatedPostCeremony(inp) ==
    (IF inp.family_groupings # None /\ inp.family_groupings > 0
     THEN inp.family_groupings * inp.minutes_per_family_grouping
     ELSE inp.family_portraits_minutes)
    + inp.wedding_party_portraits_minutes + inp.couple_portraits_minutes
    + (IF inp.receiving_line THEN inp.receiving_line_minutes ELSE 0)

\* C23: in a returned run the 'No first look: estimated post-ceremony
\* portraits' warning appears once if first_look is false and the estimated
\* post-ceremony minutes exceed cocktail_hour_minutes, and not at all
\* otherwise; the 'Protect cocktail hour' warning appears once if first_look
\* is false and protect_cocktail_hour is true, and not at all otherwise.
C23_PostCeremonyWarnings ==
    Done =>
       /\ Cardinality(WarningIndexes(NoFirstLookText)) =
             (IF ~inputs.first_look
                 /\ EstimatedPostCeremony(inputs) > inputs.cocktail_hour_minutes
              THEN 1 ELSE 0)
       /\ \A i \in WarningIndexes(NoFirstLookText) :
             warnings[i].mins = EstimatedPostCeremony(inputs)
       /\ Cardinality(WarningIndexes(ProtectCocktailText)) =
             (IF ~inputs.first_look /\ inputs.protect_cocktail_hour
              THEN 1 ELSE 0)

\* A run without first look has returned in which the receiving line tips the
\* estimate over the cocktail hour: both warnings, once each
C23_Witness ==
    /\ Done
    /\ ~inputs.first_look
    /\ inputs.receiving_line
    /\ EstimatedPostCeremony(inputs) - inputs.receiving_line_minutes
          <= inputs.cocktail_hour_minutes
    /\ Cardinality(WarningIndexes(NoFirstLookText)) = 1
    /\ Cardinality(WarningIndexes(ProtectCocktailText)) = 1

AnyFamilyDynamicsFlag(inp) ==
    \/ inp.family_dynamics.divorced_parents
    \/ inp.family_dynamics.remarried_parents
    \/ inp.family_dynamics.strained_relationships
    \/ inp.family_dynamics.finicky_family_members

\* the minutes the buffer after 'Family portraits' is to last
FamilyBufferMinutes(inp) ==
    inp.buffer_minutes
    + (IF AnyFamilyDynamicsFlag(inp)
       THEN Max2(5, inp.buffer_minutes \div 2) ELSE 0)

\* C24: in a returned run, when the minutes buffer_minutes (+ max(5,
\* floor(buffer_minutes / 2)) if any of the four family-dynamics flags is set)
\* are positive, the block right after 'Family portraits' is a
\* 'Buffer/transition' block of that many minutes; every other
\* 'Buffer/transition' block lasts buffer_minutes.
C24_FamilyDynamicsBuffer ==
    Done =>
       /\ \A i \in BlockIndexes("Family portraits") :
             FamilyBufferMinutes(inputs) > 0 =>
                /\ blocks[i + 1].name = "Buffer/transition"
                /\ duration_minutes(blocks[i + 1]) = FamilyBufferMinutes(inputs)
       /\ \A i \in BlockIndexes("Buffer/transition") :
             (i = 1 \/ blocks[i - 1].name # "Family portraits") =>
                duration_minutes(blocks[i]) = inputs.buffer_minutes

\* C25: in a returned run with photographer_arrival_time given, there is one
\* zero-duration 'Photographer arrival' block at it, one 'Arrival/Gear setup'
\* block of arrival_setup_minutes from it when arrival_setup_minutes > 0 and
\* none otherwise, and 'Flat lay & details' starts at the later of
\* coverage_start and arrival + setup; with photographer_arrival_time not
\* given there is neither arrival block and 'Flat lay & details' starts at
\* coverage_start.
C25_Arrival ==
    Done =>
       LET arr == inputs.photographer_arrival_time
           setup == inputs.arrival_setup_minutes
           flatlay == BlockIndexes("Flat lay & details")
       IN  /\ Cardinality(flatlay) = 1
           /\ IF arr # None
              THEN /\ Cardinality(BlockIndexes("Photographer arrival")) = 1
                   /\ \A i \in BlockIndexes("Photographer arrival") :
                         blocks[i].start = arr /\ blocks[i].end = arr
                   /\ Cardinality(BlockIndexes("Arrival/Gear setup")) =
                         (IF setup > 0 THEN 1 ELSE 0)
                   /\ \A i \in BlockIndexes("Arrival/Gear setup") :
                         /\ blocks[i].start = arr
                         /\ blocks[i].end = add_minutes(arr, setup)
                   /\ \A i \in flatlay :
                         blocks[i].start =
                             Max2(inputs.coverage_start,
                                  add_minutes(arr, Max2(setup, 0)))
              ELSE /\ ~HasBlock("Photographer arrival")
                   /\ ~HasBlock("Arrival/Gear setup")
                   /\ \A i \in flatlay :
                         blocks[i].start = inputs.coverage_start

\* A run has returned in which the gear setup ends after coverage_start and
\* 'Flat lay & details' starts at its end
C25_Witness ==
    /\ Done
    /\ inputs.photographer_arrival_time # None
    /\ inputs.photographer_arrival_time < inputs.coverage_start
    /\ inputs.arrival_setup_minutes > 0
    /\ \E i \in BlockIndexes("Arrival/Gear setup"), j \in BlockIndexes("Flat lay & details") :
          /\ blocks[i].end > inputs.coverage_start
          /\ blocks[j].start = blocks[i].end

\* the block list without its blocks of kind 'window'
WithoutWindowBlocks == SelectSeq(blocks, LAMBDA b : b.kind # "window")

GoldenHourName == "Golden hour portraits"

\* C27: when the run with sunset_time and the run on the same inputs without
\* it have both returned, the first holds exactly one 'Golden hour portraits'
\* block, from sunset minus 30 minutes and of golden_hour_window_minutes; its
\* other blocks are, in order and field by field, the blocks of the second;
\* and the warnings of the two runs other than the 'past coverage end'
\* warning are the same.
C27_GoldenHourLeavesSchedule ==
    (Done /\ calls = 2 /\ Len(history) = 1) =>
       LET with == history[1]
           golden == {i \in 1..Len(with.blocks) :
                         with.blocks[i].name = GoldenHourName}
           Others(bs) == SelectSeq(bs, LAMBDA b : b.name # GoldenHourName)
           Kept(ws) == SelectSeq(ws, LAMBDA w : w.text # PastCoverageText)
       IN  /\ inputs = [with.inputs EXCEPT !.sunset_time = None]
           /\ Cardinality(golden) = 1
           /\ \A i \in golden :
                 /\ with.blocks[i].start =
                       add_minutes(with.inputs.sunset_time, -30)
                 /\ duration_minutes(with.blocks[i]) =
                       with.inputs.golden_hour_window_minutes
           /\ Others(with.blocks) = blocks
           /\ Kept(with.warnings) = Kept(warnings)

\* Both runs have returned, and the golden-hour block is what takes the first
\* run past coverage end: the first run has the 'past coverage end' warning,
\* the second has not
C27_Witness ==
    /\ Done
    /\ calls = 2
    /\ Len(history) = 1
    /\ \E i \in 1..Len(history[1].warnings) :
          history[1].warnings[i].text = PastCoverageText
    /\ ~HasWarning(PastCoverageText)
    /\ \E i \in 1..Len(history[1].blocks) :
          history[1].blocks[i].name = GoldenHourName

\* the enabled cake / bouquet / garter events, in program order
CakeBouquetGarterEnabled(inp) ==
    LET re == inp.reception_events
    IN  SelectSeq(
            << [name |-> "Cake cutting", enabled |-> re.cake_cutting,
                when |-> re.cake_cutting_time,
                minutes |-> re.cake_cutting_minutes],
               [name |-> "Bouquet toss", enabled |-> re.bouquet_toss,
                when |-> re.bouquet_toss_time,
                minutes |-> re.bouquet_toss_minutes],
               [name |-> "Garter toss", enabled |-> re.garter_toss,
                when |-> re.garter_toss_time,
                minutes |-> re.garter_toss_minutes] >>,
            LAMBDA ev : ev.enabled)

\* C28: with dancefloor coverage enabled the dancefloor section appends one
\* 'Dancefloor coverage' block, from the cursor left by the dinner section and
\* of dancefloor_minutes, and the next section appends one block per enabled
\* cake / bouquet / garter event, in that order, each inside the dancefloor
\* block, and no buffer.  With it disabled the dancefloor section appends
\* nothing and the next section appends, per enabled event in that order, a
\* block of the event's minutes starting at its hard time if it has one and at
\* the cursor otherwise, followed by a buffer of buffer_minutes (when
\* positive) from the block's end.  Only the dancefloor section appends a
\* 'Dancefloor coverage' block.
C28_DancefloorBranching ==
    [][LET re == inputs.reception_events
           evs == CakeBouquetGarterEnabled(inputs)
           b == inputs.buffer_minutes
           added == AddedBlocks
       IN  /\ pc = "dancefloor" =>
                 IF re.dancefloor_coverage
                 THEN /\ Len(added) = 1
                      /\ added[1].name = "Dancefloor coverage"
                      /\ added[1].start = t
                      /\ added[1].end = add_minutes(t, re.dancefloor_minutes)
                 ELSE added = <<>>
           /\ pc # "dancefloor" =>
                 \A i \in DOMAIN added : added[i].name # "Dancefloor coverage"
           /\ (pc = "cake_bouquet_garter" /\ re.dancefloor_coverage) =>
                 /\ Len(added) = Len(evs)
                 /\ \A k \in DOMAIN evs :
                       /\ added[k].name = evs[k].name
                       /\ duration_minutes(added[k]) = evs[k].minutes
                       /\ \E d \in BlockIndexes("Dancefloor coverage") :
                             Within(added[k], blocks[d])
           /\ (pc = "cake_bouquet_garter" /\ ~re.dancefloor_coverage) =>
                 LET per == IF b > 0 THEN 2 ELSE 1
                     Cursor(k) == IF k = 1 THEN t ELSE added[per * (k - 1)].end
                 IN  /\ Len(added) = per * Len(evs)
                     /\ \A k \in DOMAIN evs :
                           LET ev == added[per * (k - 1) + 1]
                           IN  /\ ev.name = evs[k].name
                               /\ ev.start = (IF evs[k].when # None
                                              THEN evs[k].when ELSE Cursor(k))
                               /\ duration_minutes(ev) = evs[k].minutes
                               /\ b > 0 =>
                                     /\ added[per * k].name = "Buffer/transition"
                                     /\ added[per * k].start = ev.end
                                     /\ duration_minutes(added[per * k]) = b]_vars

\* The phases in their documented order; the three portrait names stand for
\* the pre-ceremony portraits at 7..9 and for the post-ceremony ones at 14..16
PhaseOrder ==
    << "Photographer arrival", "Arrival/Gear setup", "Flat lay & details",
       "Getting dressed", "Individual portraits",
       "Travel: Getting ready -> Ceremony", "First look",
       "Couple portraits", "Wedding party portraits", "Family portraits",
       "Tuckaway before ceremony", "Flexible pre-ceremony coverage",
       "Ceremony", "Receiving line",
       "Family portraits", "Wedding party portraits", "Couple portraits",
       "Travel: Ceremony -> Reception", "Cocktail hour", "Reception start",
       "Grand entrance", "First dance", "Parent dances", "Toasts", "Dinner",
       "Dancefloor coverage", "Cake cutting", "Bouquet toss", "Garter toss",
       "Golden hour portraits", "Coverage ends" >>

CeremonyPhase == CHOOSE p \in DOMAIN PhaseOrder : PhaseOrder[p] = "Ceremony"

\* the phase of the i-th block of the list bs (0 for a block of no listed
\* phase: buffers and gap fillers); a portrait block after the 'Ceremony'
\* block belongs to the post-ceremony portraits
PhaseOf(bs, i) ==
    LET after_ceremony == \E c \in 1..(i - 1) : bs[c].name = "Ceremony"
        phases == {p \in DOMAIN PhaseOrder :
                      /\ PhaseOrder[p] = bs[i].name
                      /\ bs[i].name \in PortraitNames =>
                            (after_ceremony <=> p > CeremonyPhase)}
    IN  IF phases = {} THEN 0 ELSE CHOOSE p \in phases : TRUE

\* C29: in the returned list, of any two blocks that belong to a listed
\* phase the earlier one in the list belongs to the earlier phase, whatever
\* their start times are.
C29_FixedPhaseOrder ==
    Done =>
       Let([i \in 1..Len(blocks) |-> PhaseOf(blocks, i)], LAMBDA phase :
           \A i, j \in 1..Len(blocks) :
               (i < j /\ phase[i] # 0 /\ phase[j] # 0) => phase[i] < phase[j])

\* A run has returned in which a block of a later phase starts before a block
\* of an earlier phase that precedes it in the list: the toasts are anchored
\* before the first dance and still come after it
C29_Witness ==
    /\ Done
    /\ \E i \in BlockIndexes("First dance"), j \in BlockIndexes("Toasts") :
          i < j /\ blocks[j].start < blocks[i].start

\* C30: when reception_start is given, the cursor that enters the
\* reception-start section is reception_start + buffer_minutes; no run holds a
\* 'Reception details (before guests enter)' block; and a returned run with
\* reception_start holds the 'Arrives N min after reception start' warning
\* exactly when buffer_minutes > 0, once, with N = buffer_minutes.
C30_ReceptionCursorIsAnchorPlusBuffer ==
    /\ (pc = "reception_start" /\ inputs.reception_start # None) =>
          t = add_minutes(inputs.reception_start, inputs.buffer_minutes)
    /\ ~HasBlock(ReceptionDetailsName)
    /\ (Done /\ inputs.reception_start # None) =>
          /\ Cardinality(WarningIndexes(LateToReceptionText)) =
                (IF inputs.buffer_minutes > 0 THEN 1 ELSE 0)
          /\ \A i \in WarningIndexes(LateToReceptionText) :
                warnings[i].mins = inputs.buffer_minutes

\* A run has returned whose anchored cocktail hour starts more than 10
\* minutes after the block before it ends: the gap gets no 'Reception
\* details' block, and the lateness warning reports buffer_minutes
C30_Witness ==
    /\ Done
    /\ inputs.reception_start # None
    /\ inputs.buffer_minutes > 0
    /\ \E i \in BlockIndexes("Cocktail hour") :
          /\ i > 1
          /\ blocks[i].start > add_minutes(blocks[i - 1].end, 10)
          /\ blocks[i].end = inputs.reception_start
    /\ \E i \in WarningIndexes(LateToReceptionText) :
          warnings[i].mins = inputs.buffer_minutes
    /\ ~HasBlock(ReceptionDetailsName)

====
